---- MODULE Spec2Model ----
(***************************************************************************)
(* EduTutorAi: the quiz core.                                              *)
(*                                                                         *)
(*   utils/quiz_parser.py          QuizParser  (grading, analytics)        *)
(*   services/huggingface_service.py  HuggingFaceService (generation)      *)
(*   pages/2_Take_Quiz.py          the page that drives both               *)
(*   utils/session_manager.py      SessionManager (login, logout)          *)
(*   services/pinecone_service.py  PineconeService (profiles, history)     *)
(*   pages/1_Student_Dashboard.py  the dashboard                           *)
(*                                                                         *)
(* Representation of Python values.                                        *)
(*   str    PyStr(s), s a sequence of tokens.  A token is an indivisible   *)
(*          piece of text ("Question:", "A)", "b", " ", a word).           *)
(*   None   PyNone                                                         *)
(*   int    PyInt(n)                                                       *)
(*   dict   PyDict(d), d a function whose DOMAIN is the set of keys        *)
(*   list   a sequence of values                                           *)
(* round(x, 2) is kept as the integer number of hundredths.                *)
(* Times are integer milliseconds.  In the analytics a dict whose order    *)
(* matters is the sequence of its items, and a float quotient is kept      *)
(* exact as [num, den].                                                    *)
(***************************************************************************)
EXTENDS Integers, Sequences, FiniteSets, TLC

\* ------------------------------------------------------------------------
\* Bounds of the model
\* ------------------------------------------------------------------------
MaxQuestions == 3

\* lines of text the service emits at most
MaxLines == 3

\* records of a quiz history built one record at a time
MaxHistory == 4

\* quiz records stored in one session, all users together
MaxStored == 1

\* runs of the results page in which the store refuses the record, per quiz
MaxFailedSaves == 1

\* ------------------------------------------------------------------------
\* Program constants
\* ------------------------------------------------------------------------
\* the slider of the quiz setup form
NumQuestionsMin == 3

NumQuestionsMax == 10

\* ------------------------------------------------------------------------
\* Python values
\* ------------------------------------------------------------------------
PyStr(s) == [t |-> "str", s |-> s]

PyNone == [t |-> "NoneType"]

PyInt(n) == [t |-> "int", n |-> n]

PyDict(d) == [t |-> "dict", d |-> d]

EmptyDict == <<>>

\* bool(v)
Truthy(v) ==
    CASE v.t = "str" -> v.s # <<>>
      [] v.t = "NoneType" -> FALSE
      [] v.t = "int" -> v.n # 0
      [] v.t = "dict" -> DOMAIN v.d # {}

\* d.get(k, default) on the function d
DictGet(d, k, default) == IF k \in DOMAIN d THEN d[k] ELSE default

\* d[k] = v
DictSet(d, k, v) == [x \in DOMAIN d \cup {k} |-> IF x = k THEN v ELSE d[x]]

\* one token of str.upper()
UpperTok(c) ==
    CASE c = "a" -> "A"
      [] c = "b" -> "B"
      [] c = "c" -> "C"
      [] c = "d" -> "D"
      [] c = "e" -> "E"
      [] c = "Unknown" -> "UNKNOWN"
      [] c = "Not answered" -> "NOT ANSWERED"
      [] OTHER -> c

\* s.upper()
StrUpper(s) == [i \in DOMAIN s |-> UpperTok(s[i])]

\* v.upper() raises AttributeError unless v is a str
HasUpper(v) == v.t = "str"

\* round(num/den, 2) in hundredths: Python rounds a float to the nearest value,
\* a tie to the even one
Round2(num, den) ==
    LET q == (num * 100) \div den
        r == (num * 100) % den
    IN  IF 2 * r < den THEN q
        ELSE IF 2 * r > den THEN q + 1
        ELSE IF q % 2 = 0 THEN q ELSE q + 1

\* ------------------------------------------------------------------------
\* QuizParser.calculate_quiz_results
\* ------------------------------------------------------------------------
NotAnswered == PyStr(<<"Not answered">>)

UnknownAnswer == PyStr(<<"Unknown">>)

\* AnswerGet reading the first answer whatever the position of the question
AnswerGet_FirstAnswer(user_answers, i) == DictGet(user_answers, 0, PyNone)

\* user_answers.get(i): None when the key is absent
AnswerGet(user_answers, i) == DictGet(user_answers, i, PyNone)

\* IsMatch comparing without .upper()
IsMatch_CaseSensitive(question, user_answer) ==
    LET correct_answer == DictGet(question.d, "correct_answer", PyNone)
    IN  /\ Truthy(user_answer)
        /\ Truthy(correct_answer)
        /\ user_answer.s = correct_answer.s

\* line 22: the condition of one iteration of the scoring loop
IsMatch(question, user_answer) ==
    LET correct_answer == DictGet(question.d, "correct_answer", PyNone)
    IN  /\ Truthy(user_answer)
        /\ Truthy(correct_answer)
        /\ StrUpper(user_answer.s) = StrUpper(correct_answer.s)

\* lines 19-22: whether iteration i of the scoring loop raises
MatchRaises(question, user_answer) ==
    \/ question.t # "dict"
    \/ LET correct_answer == DictGet(question.d, "correct_answer", PyNone)
       IN  /\ Truthy(user_answer)
           /\ Truthy(correct_answer)
           /\ (~HasUpper(user_answer) \/ ~HasUpper(correct_answer))

\* lines 18-23: correct_answers after the loop over questions[from..]
RECURSIVE CountCorrect(_, _, _)
CountCorrect(questions, user_answers, from) ==
    IF from > Len(questions) THEN 0
    ELSE (IF IsMatch(questions[from], AnswerGet(user_answers, from - 1)) THEN 1 ELSE 0)
         + CountCorrect(questions, user_answers, from + 1)

ScoringRaises(questions, user_answers) ==
    \E i \in 1..Len(questions) :
        MatchRaises(questions[i], AnswerGet(user_answers, i - 1))

\* BreakdownEntry numbering the entries from 0
BreakdownEntry_ZeroBased(questions, user_answers, i) ==
    LET question == questions[i].d
        user_answer == DictGet(user_answers, i - 1, NotAnswered)
        correct_answer == DictGet(question, "correct_answer", UnknownAnswer)
        is_correct == IF user_answer # NotAnswered
                      THEN StrUpper(user_answer.s) = StrUpper(correct_answer.s)
                      ELSE FALSE
    IN  [question_number |-> i - 1,
         question |-> DictGet(question, "question", PyStr(<<>>)),
         options |-> DictGet(question, "options", PyDict(EmptyDict)),
         user_answer |-> user_answer,
         correct_answer |-> correct_answer,
         is_correct |-> is_correct,
         explanation |-> DictGet(question, "explanation", PyStr(<<>>))]

\* lines 53-65: the breakdown entry of question i (1-based position i, key i-1)
BreakdownEntry(questions, user_answers, i) ==
    LET question == questions[i].d
        user_answer == DictGet(user_answers, i - 1, NotAnswered)
        correct_answer == DictGet(question, "correct_answer", UnknownAnswer)
        is_correct == IF user_answer # NotAnswered
                      THEN StrUpper(user_answer.s) = StrUpper(correct_answer.s)
                      ELSE FALSE
    IN  [question_number |-> i,
         question |-> DictGet(question, "question", PyStr(<<>>)),
         options |-> DictGet(question, "options", PyDict(EmptyDict)),
         user_answer |-> user_answer,
         correct_answer |-> correct_answer,
         is_correct |-> is_correct,
         explanation |-> DictGet(question, "explanation", PyStr(<<>>))]

\* EntryRaises with user_answers[i] in place of user_answers.get(i, ...): KeyError
EntryRaises_KeyError(question, user_answers, i) ==
    \/ (i - 1) \notin DOMAIN user_answers
    \/ question.t # "dict"
    \/ LET user_answer == DictGet(user_answers, i - 1, NotAnswered)
           correct_answer == DictGet(question.d, "correct_answer", UnknownAnswer)
       IN  /\ user_answer # NotAnswered
           /\ (~HasUpper(user_answer) \/ ~HasUpper(correct_answer))

\* lines 52-55: whether building entry i raises
EntryRaises(question, user_answers, i) ==
    \/ question.t # "dict"
    \/ LET user_answer == DictGet(user_answers, i - 1, NotAnswered)
           correct_answer == DictGet(question.d, "correct_answer", UnknownAnswer)
       IN  /\ user_answer # NotAnswered
           /\ (~HasUpper(user_answer) \/ ~HasUpper(correct_answer))

BreakdownRaises(questions, user_answers) ==
    \E i \in 1..Len(questions) : EntryRaises(questions[i], user_answers, i)

\* _get_questions_breakdown
GetQuestionsBreakdown(questions, user_answers) ==
    [i \in 1..Len(questions) |-> BreakdownEntry(questions, user_answers, i)]

\* Percentage cutting the third decimal off instead of rounding
Percentage_Truncated(correct_answers, total_questions) ==
    IF total_questions > 0 THEN (correct_answers * 10000) \div total_questions ELSE 0

\* line 26 and the round of line 31
Percentage(correct_answers, total_questions) ==
    IF total_questions > 0 THEN Round2(correct_answers * 100, total_questions) ELSE 0

\* DefaultResults with every count zeroed
DefaultResults_Zeroed(questions) ==
    [score |-> 0,
     total_questions |-> 0,
     percentage |-> 0,
     time_taken |-> 0,
     questions_breakdown |-> <<>>]

\* lines 38-46: the result of the except branch
DefaultResults(questions) ==
    [score |-> 0,
     total_questions |-> IF questions # <<>> THEN Len(questions) ELSE 0,
     percentage |-> 0,
     time_taken |-> 0,
     questions_breakdown |-> <<>>]

\* whether the try block of calculate_quiz_results raises
GradingRaises(questions, user_answers) ==
    ScoringRaises(questions, user_answers) \/ BreakdownRaises(questions, user_answers)

\* CalculateQuizResults taking total_questions from the answers given
CalculateQuizResults_TotalAnswered(questions, user_answers, start_time, time_now) ==
    IF GradingRaises(questions, user_answers)
    THEN DefaultResults(questions)
    ELSE LET total_questions == Cardinality(DOMAIN user_answers)
             correct_answers == CountCorrect(questions, user_answers, 1)
         IN  [score |-> correct_answers,
              total_questions |-> total_questions,
              percentage |-> Percentage(correct_answers, total_questions),
              time_taken |-> Round2(time_now - start_time, 1000),
              questions_breakdown |-> GetQuestionsBreakdown(questions, user_answers)]

\* CalculateQuizResults cutting time_taken off after two decimals
CalculateQuizResults_TimeTruncated(questions, user_answers, start_time, time_now) ==
    IF GradingRaises(questions, user_answers)
    THEN DefaultResults(questions)
    ELSE LET total_questions == Len(questions)
             correct_answers == CountCorrect(questions, user_answers, 1)
         IN  [score |-> correct_answers,
              total_questions |-> total_questions,
              percentage |-> Percentage(correct_answers, total_questions),
              time_taken |-> (time_now - start_time) \div 10,
              questions_breakdown |-> GetQuestionsBreakdown(questions, user_answers)]

\* calculate_quiz_results(questions, user_answers, start_time); time_now is the
\* value time.time() returns inside the call; both times are in milliseconds
CalculateQuizResults(questions, user_answers, start_time, time_now) ==
    IF GradingRaises(questions, user_answers)
    THEN DefaultResults(questions)
    ELSE LET total_questions == Len(questions)
             correct_answers == CountCorrect(questions, user_answers, 1)
         IN  [score |-> correct_answers,
              total_questions |-> total_questions,
              percentage |-> Percentage(correct_answers, total_questions),
              time_taken |-> Round2(time_now - start_time, 1000),
              questions_breakdown |-> GetQuestionsBreakdown(questions, user_answers)]

\* ------------------------------------------------------------------------
\* str operations used by HuggingFaceService
\* ------------------------------------------------------------------------
IsSpace(c) == c \in {" ", "\n"}

RECURSIVE LStrip(_)
LStrip(s) == IF s # <<>> /\ IsSpace(s[1]) THEN LStrip(Tail(s)) ELSE s

RECURSIVE RStrip(_)
RStrip(s) ==
    IF s # <<>> /\ IsSpace(s[Len(s)]) THEN RStrip(SubSeq(s, 1, Len(s) - 1)) ELSE s

\* s.strip()
Strip(s) == RStrip(LStrip(s))

\* s.startswith(prefix), prefix one token
StartsWith(s, prefix) == s # <<>> /\ s[1] = prefix

\* s.replace(old, ''), old one token: every occurrence goes
RemoveAll(s, old) == SelectSeq(s, LAMBDA c : c # old)

\* s.split('\n'): always at least one piece
RECURSIVE SplitLines(_, _)
SplitLines(s, piece) ==
    IF s = <<>> THEN <<piece>>
    ELSE IF s[1] = "\n" THEN <<piece>> \o SplitLines(Tail(s), <<>>)
    ELSE SplitLines(Tail(s), Append(piece, s[1]))

Split(s) == SplitLines(s, <<>>)

\* xs[:n] for n >= 0
Take(xs, n) == SubSeq(xs, 1, IF n < Len(xs) THEN n ELSE Len(xs))

\* ------------------------------------------------------------------------
\* HuggingFaceService._generate_fallback_quiz
\* ------------------------------------------------------------------------
FallbackOptions(a, b, c, d) ==
    PyDict([k \in {"A", "B", "C", "D"} |->
              PyStr(CASE k = "A" -> a [] k = "B" -> b [] k = "C" -> c [] k = "D" -> d)])

FallbackQuestion(text, options, correct_answer, explanation) ==
    PyDict([question |-> PyStr(text),
            options |-> options,
            correct_answer |-> PyStr(<<correct_answer>>),
            explanation |-> PyStr(explanation)])

\* lines 133-189: the five templates, topic a str (a sequence of tokens)
FallbackQuestions(topic) ==
    << FallbackQuestion(
         <<"What is an important concept in ">> \o topic \o <<"?">>,
         FallbackOptions(<<"Basic principle of ">> \o topic,
                         <<"Advanced theory in ">> \o topic,
                         <<"Common misconception about ">> \o topic,
                         <<"Unrelated concept">>),
         "A",
         <<"The basic principles form the foundation of understanding ">>
             \o topic \o <<".">>),
       FallbackQuestion(
         <<"Which of the following best describes ">> \o topic \o <<"?">>,
         FallbackOptions(<<"A complex field of study">>,
                         <<"An area requiring practical application">>,
                         <<"A theoretical framework">>,
                         <<"All of the above">>),
         "D",
         topic \o <<" encompasses theoretical knowledge and practical applications.">>),
       FallbackQuestion(
         <<"What is the primary goal when studying ">> \o topic \o <<"?">>,
         FallbackOptions(<<"To memorize facts about ">> \o topic,
                         <<"To understand core concepts and applications">>,
                         <<"To pass examinations only">>,
                         <<"To impress others with knowledge">>),
         "B",
         <<"Understanding core concepts and their applications is key to mastering ">>
             \o topic \o <<".">>),
       FallbackQuestion(
         <<"How can knowledge of ">> \o topic
             \o <<" be applied in real-world scenarios?">>,
         FallbackOptions(<<"Through theoretical analysis only">>,
                         <<"By solving practical problems">>,
                         <<"In academic discussions exclusively">>,
                         <<"It has no practical applications">>),
         "B",
         <<"Knowledge of ">> \o topic
             \o <<" is most valuable when applied to solve real-world problems.">>),
       FallbackQuestion(
         <<"What approach is most effective for learning ">> \o topic \o <<"?">>,
         FallbackOptions(<<"Passive reading only">>,
                         <<"Active practice and application">>,
                         <<"Memorization without understanding">>,
                         <<"Avoiding challenging concepts">>),
         "B",
         <<"Active practice and application reinforce understanding and retention of ">>
             \o topic \o <<".">>) >>

\* GenerateFallbackQuiz returning the whole library
GenerateFallbackQuiz_Unsliced(topic, num_questions) ==
    FallbackQuestions(topic)

\* line 191: fallback_questions[:num_questions]
GenerateFallbackQuiz(topic, num_questions) ==
    Take(FallbackQuestions(topic), num_questions)

GeneralKnowledge == <<"General Knowledge">>

\* ------------------------------------------------------------------------
\* HuggingFaceService._parse_quiz_response
\* ------------------------------------------------------------------------
OptionPrefixes == {"A)", "B)", "C)", "D)"}

\* line[0] of a line that starts with an option prefix
OptionKey(prefix) ==
    CASE prefix = "A)" -> "A"
      [] prefix = "B)" -> "B"
      [] prefix = "C)" -> "C"
      [] prefix = "D)" -> "D"

\* lines 101-106
NewQuestion(line) ==
    [question |-> PyStr(Strip(RemoveAll(line, "Question:"))),
     options |-> PyDict(EmptyDict),
     correct_answer |-> PyStr(<<>>),
     explanation |-> PyStr(<<>>)]

\* lines 97-115: one iteration of the loop; st = [questions, current_question]
ParseLine(st, raw_line) ==
    LET line == Strip(raw_line)
        cur == st.current_question
    IN  IF StartsWith(line, "Question:")
        THEN [questions |-> IF DOMAIN cur # {}
                            THEN Append(st.questions, PyDict(cur))
                            ELSE st.questions,
              current_question |-> NewQuestion(line)]
        ELSE IF line # <<>> /\ line[1] \in OptionPrefixes
        THEN LET option_key == OptionKey(line[1])
                 option_text == PyStr(Strip(Tail(line)))
             IN  IF "options" \in DOMAIN cur
                 THEN [st EXCEPT !.current_question =
                          DictSet(cur, "options",
                                  PyDict(DictSet(cur.options.d, option_key, option_text)))]
                 ELSE st
        ELSE IF StartsWith(line, "Correct Answer:")
        THEN [st EXCEPT !.current_question =
                 DictSet(cur, "correct_answer",
                         PyStr(Strip(RemoveAll(line, "Correct Answer:"))))]
        ELSE IF StartsWith(line, "Explanation:")
        THEN [st EXCEPT !.current_question =
                 DictSet(cur, "explanation",
                         PyStr(Strip(RemoveAll(line, "Explanation:"))))]
        ELSE st

\* lines 96-115: the loop over lines[from..]
RECURSIVE ParseLines(_, _, _)
ParseLines(st, lines, from) ==
    IF from > Len(lines) THEN st
    ELSE ParseLines(ParseLine(st, lines[from]), lines, from + 1)

\* lines 92-119: the questions list after the loop and the last flush
ParsedQuestions(text) ==
    LET st == ParseLines([questions |-> <<>>, current_question |-> EmptyDict],
                         Split(text), 1)
        cur == st.current_question
    IN  IF DOMAIN cur # {} /\ Truthy(DictGet(cur, "question", PyNone))
        THEN Append(st.questions, PyDict(cur))
        ELSE st.questions

\* ParseQuizResponse returning every parsed question
ParseQuizResponse_NoTruncate(response, num_questions) ==
    IF response.t # "str"
    THEN GenerateFallbackQuiz(GeneralKnowledge, num_questions)
    ELSE LET qs == ParsedQuestions(response.s)
         IN  IF Len(qs) = 0
             THEN GenerateFallbackQuiz(
                      IF Truthy(response) THEN Split(response.s)[1] ELSE GeneralKnowledge,
                      num_questions)
             ELSE qs

\* _parse_quiz_response
ParseQuizResponse(response, num_questions) ==
    IF response.t # "str"
    THEN \* response.split raises AttributeError: lines 127-129
         GenerateFallbackQuiz(GeneralKnowledge, num_questions)
    ELSE LET qs == ParsedQuestions(response.s)
         IN  IF Len(qs) = 0
             THEN GenerateFallbackQuiz(
                      IF Truthy(response) THEN Split(response.s)[1] ELSE GeneralKnowledge,
                      num_questions)
             ELSE Take(qs, num_questions)

\* ------------------------------------------------------------------------
\* HuggingFaceService._make_api_request and generate_quiz_questions
\* ------------------------------------------------------------------------
PyList(xs) == [t |-> "list", items |-> xs]

\* What requests.post does: raise, or return a response with a status code and
\* a body that is JSON (a value) or not.
ReplyException == [kind |-> "exception"]

ReplyStatus(code) == [kind |-> "response", status_code |-> code, json |-> FALSE]

ReplyNotJson == [kind |-> "response", status_code |-> 200, json |-> FALSE]

ReplyJson(body) == [kind |-> "response", status_code |-> 200, json |-> TRUE, body |-> body]

\* [{"generated_text": text}]
ReplyText(text) == ReplyJson(PyList(<<PyDict([generated_text |-> PyStr(text)])>>))

\* lines 75-87: None stands for both `return None` and the caught exception
MakeApiRequest(reply) ==
    IF reply.kind = "exception" THEN PyNone
    ELSE IF reply.status_code # 200 THEN PyNone
    ELSE IF ~reply.json THEN PyNone
    ELSE LET result == reply.body
         IN  IF result.t = "list" /\ Len(result.items) > 0
             THEN IF result.items[1].t = "dict"
                  THEN DictGet(result.items[1].d, "generated_text", PyStr(<<>>))
                  ELSE PyNone
             ELSE IF result.t = "dict"
                  THEN DictGet(result.d, "generated_text", PyStr(<<>>))
                  ELSE PyNone

\* generate_quiz_questions; reply is what the service answers to the prompt
\* (topic and difficulty reach the service in the prompt alone)
GenerateQuizQuestions(topic, difficulty, num_questions, reply) ==
    LET response == MakeApiRequest(reply)
    IN  IF Truthy(response)
        THEN ParseQuizResponse(response, num_questions)
        ELSE GenerateFallbackQuiz(topic, num_questions)

\* ------------------------------------------------------------------------
\* QuizParser analytics
\*
\* A quiz record is a function from field names to values: topic and
\* difficulty are strings, percentage is kept in hundredths as round(x, 2) is.
\* A dict whose iteration order the code relies on is the sequence of its
\* [key, value] items in insertion order.  A float that is a quotient of
\* integers is kept exact as [num, den] with den > 0.
\* ------------------------------------------------------------------------
Rat(num, den) == [num |-> num, den |-> den]

\* r < c for the integer c
RatLess(r, c) == r.num < c * r.den

\* r < s
RatBelow(r, s) == r.num * s.den < s.num * r.den

\* r = s as numbers
RatEq(r, s) == r.num * s.den = s.num * r.den

\* r - s
RatSub(r, s) == Rat(r.num * s.den - s.num * r.den, r.den * s.den)

\* the integer nearest to num/den for num >= 0, a tie going to the even one
RoundHalfEven(num, den) ==
    LET q == num \div den
        r == num % den
    IN  IF 2 * r < den THEN q
        ELSE IF 2 * r > den THEN q + 1
        ELSE IF q % 2 = 0 THEN q ELSE q + 1

\* f"{x:.1f}" of a non-negative x given in hundredths: the number of tenths shown
OneDecimal(x) == RoundHalfEven(x.num, x.den * 10)

\* sum(xs)
RECURSIVE SumSeq(_)
SumSeq(xs) == IF xs = <<>> THEN 0 ELSE Head(xs) + SumSeq(Tail(xs))

\* xs[-n:]
LastN(xs, n) ==
    IF Len(xs) <= n THEN xs ELSE SubSeq(xs, Len(xs) - n + 1, Len(xs))

\* a dict held in a variable, kept as its items in insertion order
ItemsDict(items) == [t |-> "dict", items |-> items]

\* k in d, d[k] and d[k] = v on the items of a dict
HasKey(d, k) == \E i \in 1..Len(d) : d[i].key = k

ItemGet(d, k) == d[CHOOSE i \in 1..Len(d) : d[i].key = k].value

ItemSet(d, k, v) ==
    IF HasKey(d, k)
    THEN [i \in 1..Len(d) |-> IF d[i].key = k THEN [key |-> k, value |-> v] ELSE d[i]]
    ELSE Append(d, [key |-> k, value |-> v])

\* list(d.keys())
Keys(d) == [i \in 1..Len(d) |-> d[i].key]

\* lines 141-147: the stats a topic starts with
NewTopicStats ==
    [total_quizzes |-> 0, total_score |-> 0, best_score |-> 0,
     worst_score |-> 10000, scores |-> <<>>]

\* AddToTopic taking the latest percentage as the best one
AddToTopic_BestIsLatest(stats, percentage) ==
    [total_quizzes |-> stats.total_quizzes + 1,
     total_score |-> stats.total_score + percentage,
     best_score |-> percentage,
     worst_score |-> IF stats.worst_score <= percentage
                     THEN stats.worst_score ELSE percentage,
     scores |-> Append(stats.scores, percentage)]

\* lines 149-153: one record added to the stats of its topic
AddToTopic(stats, percentage) ==
    [total_quizzes |-> stats.total_quizzes + 1,
     total_score |-> stats.total_score + percentage,
     best_score |-> IF stats.best_score >= percentage
                    THEN stats.best_score ELSE percentage,
     worst_score |-> IF stats.worst_score <= percentage
                     THEN stats.worst_score ELSE percentage,
     scores |-> Append(stats.scores, percentage)]

\* TopicOf folding the letter case of the topic
TopicOf_Normalized(quiz) ==
    LET topic == DictGet(quiz, "topic", "Unknown")
    IN  IF topic = "algebra" THEN "Algebra" ELSE topic

\* line 137: quiz.get('topic', 'Unknown')
TopicOf(quiz) == DictGet(quiz, "topic", "Unknown")

\* lines 138 and 179: quiz.get('percentage', 0)
PercentageOf(quiz) == DictGet(quiz, "percentage", 0)

\* lines 136-153: topic_stats after the first n iterations of the loop
RECURSIVE TopicLoop(_, _)
TopicLoop(quiz_history, n) ==
    IF n = 0 THEN <<>>
    ELSE LET topic_stats == TopicLoop(quiz_history, n - 1)
             quiz == quiz_history[n]
             topic == TopicOf(quiz)
             percentage == PercentageOf(quiz)
             stats == IF HasKey(topic_stats, topic)
                      THEN ItemGet(topic_stats, topic) ELSE NewTopicStats
         IN  ItemSet(topic_stats, topic, AddToTopic(stats, percentage))

\* Trend comparing the last score with the first
Trend_LastMinusFirst(scores) ==
    IF Len(scores) > 1
    THEN Rat(scores[Len(scores)] - scores[1], 1)
    ELSE Rat(0, 1)

\* Trend taking the last two scores as the recent ones
Trend_RecentTwo(scores) ==
    IF Len(scores) > 1
    THEN LET recent_avg == Rat(SumSeq(LastN(scores, 2)), Len(LastN(scores, 2)))
             early_avg == Rat(SumSeq(Take(scores, 3)), Len(Take(scores, 3)))
         IN  RatSub(recent_avg, early_avg)
    ELSE Rat(0, 1)

\* lines 160-166: the trend of the scores of one topic
Trend(scores) ==
    IF Len(scores) > 1
    THEN LET recent_avg == Rat(SumSeq(LastN(scores, 3)), Len(LastN(scores, 3)))
             early_avg == Rat(SumSeq(Take(scores, 3)), Len(Take(scores, 3)))
         IN  RatSub(recent_avg, early_avg)
    ELSE Rat(0, 1)

\* lines 157-166: the stats of one topic with average_score and trend added
TopicAverages(stats) ==
    [total_quizzes |-> stats.total_quizzes,
     total_score |-> stats.total_score,
     best_score |-> stats.best_score,
     worst_score |-> stats.worst_score,
     scores |-> stats.scores,
     average_score |-> Rat(stats.total_score, stats.total_quizzes),
     trend |-> Trend(stats.scores)]

\* analyze_topic_performance
AnalyzeTopicPerformance(quiz_history) ==
    IF quiz_history = <<>> THEN <<>>
    ELSE LET topic_stats == TopicLoop(quiz_history, Len(quiz_history))
         IN  [i \in 1..Len(topic_stats) |->
                 [key |-> topic_stats[i].key,
                  value |-> TopicAverages(topic_stats[i].value)]]

\* DifficultyOf without the default
DifficultyOf_Unset(quiz) == DictGet(quiz, "difficulty", "unset")

\* line 178: quiz.get('difficulty', 'medium')
DifficultyOf(quiz) == DictGet(quiz, "difficulty", "medium")

\* lines 182-186: the stats a difficulty starts with
NewDifficultyStats == [total_quizzes |-> 0, total_score |-> 0, scores |-> <<>>]

\* lines 188-190: one record added to the stats of its difficulty
AddToDifficulty(stats, percentage) ==
    [total_quizzes |-> stats.total_quizzes + 1,
     total_score |-> stats.total_score + percentage,
     scores |-> Append(stats.scores, percentage)]

\* lines 177-190: difficulty_stats after the first n iterations of the loop
RECURSIVE DifficultyLoop(_, _)
DifficultyLoop(quiz_history, n) ==
    IF n = 0 THEN <<>>
    ELSE LET difficulty_stats == DifficultyLoop(quiz_history, n - 1)
             quiz == quiz_history[n]
             difficulty == DifficultyOf(quiz)
             percentage == PercentageOf(quiz)
             stats == IF HasKey(difficulty_stats, difficulty)
                      THEN ItemGet(difficulty_stats, difficulty)
                      ELSE NewDifficultyStats
         IN  ItemSet(difficulty_stats, difficulty, AddToDifficulty(stats, percentage))

\* SuccessRate counting only the scores above 70
SuccessRate_Above70(scores) ==
    Rat(Len(SelectSeq(scores, LAMBDA s : s > 7000)) * 10000, Len(scores))

\* SuccessRate counting the scores from 60 on
SuccessRate_From60(scores) ==
    Rat(Len(SelectSeq(scores, LAMBDA s : s >= 6000)) * 10000, Len(scores))

\* line 195: len([s for s in scores if s >= 70]) / len(scores) * 100, in hundredths
SuccessRate(scores) ==
    Rat(Len(SelectSeq(scores, LAMBDA s : s >= 7000)) * 10000, Len(scores))

\* lines 194-195: the stats of one difficulty with average_score and success_rate
DifficultyAverages(stats) ==
    [total_quizzes |-> stats.total_quizzes,
     total_score |-> stats.total_score,
     scores |-> stats.scores,
     average_score |-> Rat(stats.total_score, stats.total_quizzes),
     success_rate |-> SuccessRate(stats.scores)]

\* get_difficulty_analysis
GetDifficultyAnalysis(quiz_history) ==
    IF quiz_history = <<>> THEN <<>>
    ELSE LET difficulty_stats == DifficultyLoop(quiz_history, Len(quiz_history))
         IN  [i \in 1..Len(difficulty_stats) |->
                 [key |-> difficulty_stats[i].key,
                  value |-> DifficultyAverages(difficulty_stats[i].value)]]

\* WeakestTopic taking the first topic of the mapping
WeakestTopic_Unsorted(topic_performance) == topic_performance[1]

\* lines 206-209: sorted_topics[0]; sorted() is stable, so among the topics of
\* the lowest average_score it is the one inserted first
WeakestTopic(topic_performance) ==
    topic_performance[
        CHOOSE i \in 1..Len(topic_performance) :
            /\ \A j \in 1..Len(topic_performance) :
                  ~RatBelow(topic_performance[j].value.average_score,
                            topic_performance[i].value.average_score)
            /\ \A j \in 1..(i - 1) :
                  RatBelow(topic_performance[i].value.average_score,
                           topic_performance[j].value.average_score)]

\* DecliningTopics taking a trend of -10 as declining
DecliningTopics_AtMost(topic_performance) ==
    Keys(SelectSeq(topic_performance,
                   LAMBDA item : ~RatLess(RatSub(Rat(0, 1), item.value.trend), 1000)))

\* line 214: the topics with trend < -10, in the order of the mapping
DecliningTopics(topic_performance) ==
    Keys(SelectSeq(topic_performance,
                   LAMBDA item : RatLess(item.value.trend, -1000)))

\* line 211; average_score is the number of tenths that :.1f shows
FocusOn(topic, average_score) ==
    [text |-> "Focus on improving your understanding of {topic} - your average score is {average_score:.1f}%",
     topic |-> topic,
     average_score |-> OneDecimal(average_score)]

\* line 216; topics is what ', '.join separates
ReviewDeclining(declining_topics) ==
    [text |-> "Review {declining_topics} as your performance seems to be declining in these areas",
     declining_topics |-> declining_topics]

\* PracticeMore showing the success rate as a whole percentage
PracticeMore_WholePercent(difficulty, success_rate) ==
    [text |-> "Consider practicing more {difficulty} level questions - your success rate is {success_rate:.1f}%",
     difficulty |-> difficulty,
     success_rate |-> 10 * RoundHalfEven(success_rate.num, success_rate.den * 100)]

\* line 222; success_rate is the number of tenths that :.1f shows
PracticeMore(difficulty, success_rate) ==
    [text |-> "Consider practicing more {difficulty} level questions - your success rate is {success_rate:.1f}%",
     difficulty |-> difficulty,
     success_rate |-> OneDecimal(success_rate)]

\* line 226
KeepUp ==
    [text |-> "Keep up the great work! Continue practicing regularly to maintain your performance."]

\* lines 204-216: what the topics add to recommendations
TopicRecommendations(topic_performance) ==
    IF topic_performance = <<>> THEN <<>>
    ELSE LET weakest_topic == WeakestTopic(topic_performance)
             declining_topics == DecliningTopics(topic_performance)
         IN  (IF RatLess(weakest_topic.value.average_score, 7000)
              THEN <<FocusOn(weakest_topic.key, weakest_topic.value.average_score)>>
              ELSE <<>>)
             \o (IF declining_topics # <<>>
                 THEN <<ReviewDeclining(declining_topics)>>
                 ELSE <<>>)

\* lines 219-222: what the first n difficulties add to recommendations
RECURSIVE DifficultyRecommendations(_, _)
DifficultyRecommendations(difficulty_analysis, n) ==
    IF n = 0 THEN <<>>
    ELSE LET item == difficulty_analysis[n]
         IN  DifficultyRecommendations(difficulty_analysis, n - 1)
             \o (IF RatLess(item.value.average_score, 6000)
                 THEN <<PracticeMore(item.key, item.value.success_rate)>>
                 ELSE <<>>)

\* GenerateStudyRecommendations returning the whole list
GenerateStudyRecommendations_Untruncated(topic_performance, difficulty_analysis) ==
    LET recommendations ==
            TopicRecommendations(topic_performance)
            \o DifficultyRecommendations(difficulty_analysis, Len(difficulty_analysis))
    IN  IF recommendations = <<>> THEN <<KeepUp>> ELSE recommendations

\* GenerateStudyRecommendations without the general recommendation
GenerateStudyRecommendations_NoGeneric(topic_performance, difficulty_analysis) ==
    LET recommendations ==
            TopicRecommendations(topic_performance)
            \o DifficultyRecommendations(difficulty_analysis, Len(difficulty_analysis))
    IN  Take(recommendations, 3)

\* generate_study_recommendations
GenerateStudyRecommendations(topic_performance, difficulty_analysis) ==
    LET recommendations ==
            TopicRecommendations(topic_performance)
            \o DifficultyRecommendations(difficulty_analysis, Len(difficulty_analysis))
    IN  Take(IF recommendations = <<>> THEN <<KeepUp>> ELSE recommendations, 3)

\* ------------------------------------------------------------------------
\* State
\* ------------------------------------------------------------------------
VARIABLES
    questions,      \* the questions argument of calculate_quiz_results (a list)
    user_answers,   \* the user_answers argument: a dict from 0-based index to value
    quiz_start_time, \* the start_time argument: the clock when the quiz was started
    clock,          \* time.time(), in milliseconds
    results,        \* what calculate_quiz_results returned, PyNone before the call
    reply,          \* what the text-generation service answers to the next request
    gen_args,       \* the arguments of generate_quiz_questions, PyNone before the call
    gen_questions,  \* what generate_quiz_questions returned
    history,        \* the quiz_history the caller holds, oldest record first
    topic_stats,    \* what analyze_topic_performance returned last, PyNone before
    difficulty_stats,  \* what get_difficulty_analysis returned last, PyNone before
    recommendations, \* what generate_study_recommendations returned, PyNone before
    session_state,  \* st.session_state of one browser session: a dict from key to value
    gradings        \* calls of calculate_quiz_results made for the quiz the session holds

vars ==
    <<questions, user_answers, quiz_start_time, clock, results,
      reply, gen_args, gen_questions,
      history, topic_stats, difficulty_stats, recommendations,
      session_state, gradings>>

graderVars == <<questions, user_answers, quiz_start_time, clock, results>>

genVars == <<reply, gen_args, gen_questions>>

analyticsVars == <<history, topic_stats, difficulty_stats, recommendations>>

sessionVars == <<session_state, gradings>>

\* ------------------------------------------------------------------------
\* Inputs of the grader
\* ------------------------------------------------------------------------
FourOptions ==
    PyDict([k \in {"A", "B", "C", "D"} |-> PyStr(<<"option ", k>>)])

\* a question as the generator returns it, with the given correct_answer text
MakeQuestion(text, options, correct_answer) ==
    PyDict([question |-> PyStr(<<text>>),
            options |-> options,
            correct_answer |-> correct_answer,
            explanation |-> PyStr(<<"why ", text>>)])

\* Well-formed questions (the key in upper case, in lower case, and left empty by
\* a response without a Correct Answer line) and malformed list elements (a
\* correct_answer of None, an element that is no dict).
QuestionPool ==
    { MakeQuestion("Q1", FourOptions, PyStr(<<"A">>)),
      MakeQuestion("Q2", FourOptions, PyStr(<<"b">>)),
      MakeQuestion("Q3", PyDict(EmptyDict), PyStr(<<>>)),
      MakeQuestion("Q4", FourOptions, PyNone),
      PyStr(<<"junk">>) }

\* Submitted answers: option letters in either case, and a value that is no str.
AnswerPool == { PyStr(<<"a">>), PyStr(<<"B">>), PyInt(1) }

\* time.time() when the quiz is started, in milliseconds
StartPool == { 500 }

\* time.time() at a call of calculate_quiz_results, in milliseconds
ClockPool == { 1734, 61738 }

\* ------------------------------------------------------------------------
\* The grader as a state machine: the caller builds the arguments, then calls
\* ------------------------------------------------------------------------
InitGrade ==
    /\ questions = <<>>
    /\ user_answers = EmptyDict
    /\ quiz_start_time \in StartPool
    /\ clock = quiz_start_time
    /\ results = PyNone

AddQuestion(q) ==
    /\ results = PyNone
    /\ Len(questions) < MaxQuestions
    /\ questions' = Append(questions, q)
    /\ UNCHANGED <<user_answers, quiz_start_time, clock, results, genVars, analyticsVars, sessionVars>>

\* user_answers[i] = a
SetAnswer(i, a) ==
    /\ results = PyNone
    /\ i \in 0..(Len(questions) - 1)
    /\ user_answers' = DictSet(user_answers, i, a)
    /\ UNCHANGED <<questions, quiz_start_time, clock, results, genVars, analyticsVars, sessionVars>>

\* results = calculate_quiz_results(questions, user_answers, quiz_start_time),
\* called when the clock reads time_now
Grade(time_now) ==
    /\ results = PyNone
    /\ time_now >= clock
    /\ clock' = time_now
    /\ results' = CalculateQuizResults(questions, user_answers, quiz_start_time, time_now)
    /\ UNCHANGED <<questions, user_answers, quiz_start_time, genVars, analyticsVars, sessionVars>>

\* the same call made again with the same arguments at a later moment, as the
\* results page does on a rerun while quiz_results is still None
GradeAgain(time_now) ==
    /\ results # PyNone
    /\ time_now > clock
    /\ clock' = time_now
    /\ results' = CalculateQuizResults(questions, user_answers, quiz_start_time, time_now)
    /\ UNCHANGED <<questions, user_answers, quiz_start_time, genVars, analyticsVars, sessionVars>>

NextGrade ==
    \/ \E q \in QuestionPool : AddQuestion(q)
    \/ \E i \in 0..(MaxQuestions - 1), a \in AnswerPool : SetAnswer(i, a)
    \/ \E time_now \in ClockPool : Grade(time_now)
    \/ \E time_now \in ClockPool : GradeAgain(time_now)

\* ------------------------------------------------------------------------
\* Inputs of the generator
\* ------------------------------------------------------------------------
TopicPool == { <<"Algebra">>, <<"World", " ", "History">> }

Difficulties == {"easy", "medium", "hard"}

\* lines the service may emit
LinePool ==
    { <<" ", "Question:", " ", "Q1", " ">>,
      <<"Question:", " ", "Q2">>,
      <<"Question:">>,
      <<"A)", " ", "yes">>,
      <<"B)", "no">>,
      <<"Correct Answer:", " ", "A">>,
      <<"Explanation:", " ", "why">>,
      <<"Sure,", " ", "here">> }

\* more questions than the smallest count the form allows
FourQuestionText ==
    <<"Question:", " ", "Q2", "\n", " ", "Question:", " ", "Q1", "\n",
      "Question:", " ", "Q2", "\n", "Question:", " ", "Q1">>

OneQuestionText ==
    <<"Question:", " ", "Q1", "\n", "A)", "yes", "\n", "B)", "no", "\n",
      "Correct Answer:", "B", "\n", "Explanation:", " ", "why">>

\* replies that carry no text built line by line
FixedReplies ==
    { ReplyException,
      ReplyStatus(503),
      ReplyNotJson,
      ReplyJson(PyList(<<>>)),
      ReplyJson(PyList(<<PyDict(EmptyDict)>>)),
      ReplyJson(PyList(<<PyStr(<<"loading">>)>>)),
      ReplyJson(PyDict(EmptyDict)),
      ReplyJson(PyDict([generated_text |-> PyStr(OneQuestionText)])),
      ReplyText(FourQuestionText),
      ReplyJson(PyList(<<PyDict([generated_text |-> PyNone])>>)),
      ReplyJson(PyList(<<PyDict([generated_text |-> PyInt(5)])>>)) }

\* the generated_text of a reply of the shape [{"generated_text": <str>}]
ReplyTextOf(r) == r.body.items[1].d.generated_text.s

IsTextReply(r) ==
    /\ r.kind = "response" /\ r.status_code = 200 /\ r.json
    /\ r.body.t = "list" /\ Len(r.body.items) = 1
    /\ r.body.items[1].t = "dict"
    /\ "generated_text" \in DOMAIN r.body.items[1].d
    /\ r.body.items[1].d.generated_text.t = "str"

\* ------------------------------------------------------------------------
\* The generator as a state machine: the service prepares its reply, then the
\* page calls generate_quiz_questions
\* ------------------------------------------------------------------------
InitGen ==
    /\ reply = ReplyText(<<>>)
    /\ gen_args = PyNone
    /\ gen_questions = <<>>

\* the service's text grows by one line
ServiceEmitLine(l) ==
    /\ gen_args = PyNone
    /\ IsTextReply(reply)
    /\ LET text == ReplyTextOf(reply)
       IN  /\ (text = <<>> \/ Len(Split(text)) < MaxLines)
           /\ reply' = ReplyText(IF text = <<>> THEN l ELSE text \o <<"\n">> \o l)
    /\ UNCHANGED <<gen_args, gen_questions, graderVars, analyticsVars, sessionVars>>

\* the service fails, or answers with a payload of another shape
ServiceAnswers(r) ==
    /\ gen_args = PyNone
    /\ reply = ReplyText(<<>>)
    /\ reply' = r
    /\ UNCHANGED <<gen_args, gen_questions, graderVars, analyticsVars, sessionVars>>

\* questions = hf_service.generate_quiz_questions(topic, difficulty, num_questions)
Generate(topic, difficulty, num_questions) ==
    /\ gen_args = PyNone
    /\ gen_args' = [topic |-> topic, num_questions |-> num_questions]
    /\ gen_questions' = GenerateQuizQuestions(topic, difficulty, num_questions, reply)
    /\ UNCHANGED <<reply, graderVars, analyticsVars, sessionVars>>

NextGen ==
    \/ \E l \in LinePool : ServiceEmitLine(l)
    \/ \E r \in FixedReplies : ServiceAnswers(r)
    \/ \E topic \in TopicPool, difficulty \in Difficulties,
          n \in NumQuestionsMin..NumQuestionsMax : Generate(topic, difficulty, n)

\* ------------------------------------------------------------------------
\* Inputs of the analytics
\* ------------------------------------------------------------------------
QuizRecord(topic, difficulty, percentage) ==
    [topic |-> topic, difficulty |-> difficulty, percentage |-> percentage]

\* Stored records: two topics that differ in letter case only, the three
\* difficulties, percentages of 40, 70 and 100, and records that lack the
\* topic, the difficulty or the percentage.  With these percentages every
\* mean of three is a whole number unless a percentage is missing.
RecordPool ==
    { QuizRecord("Algebra", "easy", 10000),
      QuizRecord("Algebra", "medium", 7000),
      QuizRecord("Algebra", "hard", 4000),
      QuizRecord("algebra", "easy", 4000),
      [topic |-> "Algebra", percentage |-> 4000],
      [difficulty |-> "easy", percentage |-> 7000],
      [topic |-> "algebra", difficulty |-> "hard"] }

\* scenario C: five quizzes on one topic, improving
ScenarioC ==
    << QuizRecord("Algebra", "medium", 4000),
       QuizRecord("Algebra", "medium", 5000),
       QuizRecord("Algebra", "medium", 6000),
       QuizRecord("Algebra", "medium", 7000),
       QuizRecord("Algebra", "medium", 8000) >>

\* scenario D: three easy quizzes
ScenarioD ==
    << QuizRecord("Geometry", "easy", 5000),
       QuizRecord("Geometry", "easy", 5500),
       QuizRecord("Geometry", "easy", 6500) >>

\* three topics of four quizzes each: Algebra and History fall by 20 points,
\* Geometry by exactly 10
ThreeTopics ==
    << QuizRecord("Algebra", "medium", 10000),
       QuizRecord("Geometry", "medium", 7000),
       QuizRecord("History", "medium", 10000),
       QuizRecord("Algebra", "medium", 7000),
       QuizRecord("Geometry", "medium", 7000),
       QuizRecord("History", "medium", 10000),
       QuizRecord("Algebra", "medium", 7000),
       QuizRecord("Geometry", "medium", 7000),
       QuizRecord("History", "medium", 7000),
       QuizRecord("Algebra", "hard", 4000),
       QuizRecord("Geometry", "easy", 4000),
       QuizRecord("History", "hard", 4000) >>

\* scenario E: the topic mapping comes from one topic of average 55, the
\* difficulty mapping from one difficulty of average 50
ScenarioETopics ==
    << QuizRecord("Algebra", "medium", 5000),
       QuizRecord("Algebra", "medium", 6000) >>

ScenarioEDifficulties ==
    << QuizRecord("Algebra", "hard", 4000),
       QuizRecord("Algebra", "hard", 6000) >>

FixedHistories ==
    { ScenarioC, ScenarioD, ThreeTopics, ScenarioETopics, ScenarioEDifficulties }

\* ------------------------------------------------------------------------
\* The analytics as a state machine: the caller holds a history, has it
\* analysed and asks for recommendations from the mappings it holds
\* ------------------------------------------------------------------------
InitAnalytics ==
    /\ history = <<>>
    /\ topic_stats = PyNone
    /\ difficulty_stats = PyNone
    /\ recommendations = PyNone

\* one more stored record, before anything was analysed
AddRecord(quiz) ==
    /\ topic_stats = PyNone /\ difficulty_stats = PyNone
    /\ Len(history) < MaxHistory
    /\ history' = Append(history, quiz)
    /\ UNCHANGED <<topic_stats, difficulty_stats, recommendations, graderVars, genVars, sessionVars>>

\* the caller turns to another stored history, keeping the mappings it holds
LoadHistory(quiz_history) ==
    /\ recommendations = PyNone
    /\ history \in FixedHistories \cup {<<>>}
    /\ history # quiz_history
    /\ history' = quiz_history
    /\ UNCHANGED <<topic_stats, difficulty_stats, recommendations, graderVars, genVars, sessionVars>>

\* AnalyzeTopics writing the default topic into the records that lack one, as
\* quiz.setdefault('topic', 'Unknown') would
AnalyzeTopics_SetsDefault ==
    /\ recommendations = PyNone
    /\ topic_stats' = ItemsDict(AnalyzeTopicPerformance(history))
    /\ history' = [i \in 1..Len(history) |->
                      IF "topic" \in DOMAIN history[i] THEN history[i]
                      ELSE [k \in DOMAIN history[i] \cup {"topic"} |->
                               IF k = "topic" THEN "Unknown" ELSE history[i][k]]]
    /\ UNCHANGED <<difficulty_stats, recommendations, graderVars, genVars, sessionVars>>

\* topic_stats = analyze_topic_performance(history); the call reads the
\* records with quiz.get and builds a new dict
AnalyzeTopics ==
    /\ recommendations = PyNone
    /\ topic_stats' = ItemsDict(AnalyzeTopicPerformance(history))
    /\ UNCHANGED <<history, difficulty_stats, recommendations, graderVars, genVars, sessionVars>>

\* difficulty_stats = get_difficulty_analysis(history)
AnalyzeDifficulty ==
    /\ recommendations = PyNone
    /\ difficulty_stats' = ItemsDict(GetDifficultyAnalysis(history))
    /\ UNCHANGED <<history, topic_stats, recommendations, graderVars, genVars, sessionVars>>

\* recommendations = generate_study_recommendations(topic_stats, difficulty_stats)
Recommend ==
    /\ topic_stats # PyNone /\ difficulty_stats # PyNone
    /\ recommendations' =
          PyList(GenerateStudyRecommendations(topic_stats.items, difficulty_stats.items))
    /\ UNCHANGED <<history, topic_stats, difficulty_stats, graderVars, genVars, sessionVars>>

NextAnalytics ==
    \/ \E quiz \in RecordPool : AddRecord(quiz)
    \/ \E quiz_history \in FixedHistories : LoadHistory(quiz_history)
    \/ AnalyzeTopics
    \/ AnalyzeDifficulty
    \/ Recommend

\* ------------------------------------------------------------------------
\* st.session_state: a dict from key to value, kept as a function
\* ------------------------------------------------------------------------
\* if k not in st.session_state: st.session_state[k] = v
SetDefault(s, k, v) == IF k \in DOMAIN s THEN s ELSE DictSet(s, k, v)

\* for key in keys: if key in st.session_state: del st.session_state[key]
DeleteKeys(s, keys) == [k \in DOMAIN s \ keys |-> s[k]]

\* ------------------------------------------------------------------------
\* SessionManager
\* ------------------------------------------------------------------------
InitializeSessionState(s) ==
    SetDefault(SetDefault(SetDefault(s, "authenticated", FALSE),
                          "user_info", EmptyDict),
               "login_time", PyNone)

\* login_user for a manual login; datetime.now() reads time_now, and the
\* session id, a hash of the time and a random number, is kept as the time
LoginUser(s, user_id, role, time_now) ==
    LET user_info == [user_id |-> user_id,
                      login_method |-> "manual",
                      role |-> role,
                      login_time |-> time_now,
                      session_id |-> time_now,
                      name |-> user_id,
                      email |-> <<user_id, "@edututor.local">>]
    IN  [s EXCEPT !["authenticated"] = TRUE,
                  !["user_info"] = user_info,
                  !["login_time"] = PyInt(time_now)]

\* line 79: the keys logout_user calls quiz-related
LogoutQuizKeys ==
    {"quiz_started", "quiz_questions", "current_question", "user_answers",
     "quiz_start_time", "quiz_completed", "quiz_results"}

\* logout_user
LogoutUser(s) ==
    LET cleared == [s EXCEPT !["authenticated"] = FALSE,
                             !["user_info"] = EmptyDict,
                             !["login_time"] = PyNone]
    IN  DeleteKeys(cleared, {"google_credentials", "oauth_flow"} \cup LogoutQuizKeys)

\* ------------------------------------------------------------------------
\* PineconeService on its local storage, which lives in st.session_state
\* ------------------------------------------------------------------------
InitializeLocalStorage(s) ==
    SetDefault(SetDefault(s, "user_profiles", EmptyDict), "quiz_history", EmptyDict)

\* create_user_profile
CreateUserProfile(s, user_id, user_data, time_now) ==
    LET profile_data == [user_id |-> user_id,
                         name |-> DictGet(user_data, "name", ""),
                         email |-> DictGet(user_data, "email", <<>>),
                         role |-> DictGet(user_data, "role", "student"),
                         login_method |-> DictGet(user_data, "login_method", "manual"),
                         created_at |-> time_now,
                         updated_at |-> time_now,
                         quiz_count |-> 0,
                         total_score |-> 0,
                         average_score |-> Rat(0, 1),
                         preferred_topics |-> <<>>,
                         learning_level |-> "beginner",
                         google_info |-> DictGet(user_data, "google_info", EmptyDict),
                         synced_courses |-> DictGet(user_data, "synced_courses", <<>>)]
    IN  [s EXCEPT !["user_profiles"] = DictSet(@, user_id, profile_data)]

\* get_user_profile: None when there is no profile
GetUserProfile(s, user_id) == DictGet(s["user_profiles"], user_id, PyNone)

\* get_quiz_history
GetQuizHistory(s, user_id) == DictGet(s["quiz_history"], user_id, <<>>)

\* lines 189-200: the profile after one more quiz; total_score adds the raw
\* score and average_score is total_score / quiz_count
UpdatedProfile(profile, quiz_result, time_now) ==
    LET quiz_count == profile.quiz_count + 1
        total_score == profile.total_score + quiz_result.score
        topic == quiz_result.topic
        listed == \E i \in 1..Len(profile.preferred_topics) :
                      profile.preferred_topics[i] = topic
    IN  [profile EXCEPT !.quiz_count = quiz_count,
                        !.total_score = total_score,
                        !.average_score = Rat(total_score, quiz_count),
                        !.preferred_topics = IF listed THEN @ ELSE Append(@, topic),
                        !.updated_at = time_now]

\* store_quiz_result when nothing raises: the record is appended to the history
\* of the user and the profile, if there is one, is updated; returns True
StoreQuizResult(s, user_id, quiz_data, time_now) ==
    LET quiz_result == [user_id |-> user_id,
                        quiz_id |-> DictGet(quiz_data, "quiz_id", time_now),
                        topic |-> DictGet(quiz_data, "topic", ""),
                        difficulty |-> DictGet(quiz_data, "difficulty", "medium"),
                        questions |-> DictGet(quiz_data, "questions", <<>>),
                        user_answers |-> DictGet(quiz_data, "user_answers", <<>>),
                        score |-> DictGet(quiz_data, "score", 0),
                        total_questions |-> DictGet(quiz_data, "total_questions", 0),
                        percentage |-> DictGet(quiz_data, "percentage", 0),
                        time_taken |-> DictGet(quiz_data, "time_taken", 0),
                        completed_at |-> time_now]
        stored == [s EXCEPT !["quiz_history"] =
                      DictSet(@, user_id, Append(DictGet(@, user_id, <<>>), quiz_result))]
        profile == GetUserProfile(stored, user_id)
    IN  IF profile # PyNone
        THEN [stored EXCEPT !["user_profiles"] =
                 DictSet(@, user_id, UpdatedProfile(profile, quiz_result, time_now))]
        ELSE stored

\* ------------------------------------------------------------------------
\* pages/2_Take_Quiz.py
\* ------------------------------------------------------------------------
\* what every page does first: SessionManager() and PineconeService()
PageStart(s) == InitializeLocalStorage(InitializeSessionState(s))

\* lines 38-51
QuizPageDefaults(s) ==
    LET s1 == SetDefault(s, "quiz_started", FALSE)
        s2 == SetDefault(s1, "quiz_questions", <<>>)
        s3 == SetDefault(s2, "current_question", 0)
        s4 == SetDefault(s3, "user_answers", EmptyDict)
        s5 == SetDefault(s4, "quiz_start_time", PyNone)
        s6 == SetDefault(s5, "quiz_completed", FALSE)
    IN  SetDefault(s6, "quiz_results", PyNone)

\* lines 106-114: the quiz is started; time_limit is in minutes
StartQuiz(s, topic, difficulty, time_limit, quiz_questions, time_now) ==
    LET s1 == DictSet(s, "quiz_questions", quiz_questions)
        s2 == DictSet(s1, "quiz_topic", topic)
        s3 == DictSet(s2, "quiz_difficulty", difficulty)
        s4 == DictSet(s3, "quiz_time_limit", time_limit * 60)
    IN  [s4 EXCEPT !["user_answers"] = EmptyDict,
                   !["current_question"] = 0,
                   !["quiz_started"] = TRUE,
                   !["quiz_start_time"] = PyInt(time_now),
                   !["quiz_completed"] = FALSE]

\* lines 126-130: time_remaining <= 0, the limit being in seconds
TimeIsUp(s, time_now) ==
    s["quiz_time_limit"] * 1000 - (time_now - s["quiz_start_time"].n) <= 0

\* lines 161-178: the radio shows the answer given before unless another option
\* is chosen (choice, PyNone when the learner chooses nothing), and what it
\* shows is stored; a question without options has no radio
RadioStored(s, choice) ==
    LET current_q == s["current_question"]
        options == DictGet(s["quiz_questions"][current_q + 1].d, "options", PyDict(EmptyDict))
        prev_answer == DictGet(s["user_answers"], current_q, PyNone)
        answer_key == IF choice # PyNone THEN choice ELSE prev_answer
    IN  IF Truthy(options) /\ answer_key # PyNone
        THEN [s EXCEPT !["user_answers"] = DictSet(@, current_q, answer_key)]
        ELSE s

\* lines 217-233: the record handed to store_quiz_result
QuizData(s, quiz_results) ==
    [topic |-> s["quiz_topic"],
     difficulty |-> s["quiz_difficulty"],
     questions |-> s["quiz_questions"],
     user_answers |-> s["user_answers"],
     score |-> quiz_results.score,
     total_questions |-> quiz_results.total_questions,
     percentage |-> quiz_results.percentage,
     time_taken |-> quiz_results.time_taken]

\* ------------------------------------------------------------------------
\* Inputs of the session
\* ------------------------------------------------------------------------
UserPool == {"ann", "bob"}

Roles == {"student", "educator"}

TwoOptions == PyDict([k \in {"A", "B"} |-> PyStr(<<"option ", k>>)])

\* the forms a learner submits on the setup page, with the questions the
\* generator returns for them: a question with two options followed by one
\* that has no options
QuizSetups ==
    { [topic |-> "Algebra", difficulty |-> "hard", time_limit |-> 5,
       questions |-> << MakeQuestion("Q1", TwoOptions, PyStr(<<"A">>)),
                        MakeQuestion("Q3", PyDict(EmptyDict), PyStr(<<>>)) >>] }

\* the moments at which the session is used after its start, in milliseconds
SessionClockPool == { 400000 }

\* the clock read by a run of a page: it stands or has moved on
Moments == {clock} \cup {t \in SessionClockPool : t > clock}

\* the quiz records stored for all users together
TotalStored(s) ==
    LET quiz_history == s["quiz_history"]
        users == DOMAIN quiz_history
        counts == [u \in users |-> Len(quiz_history[u])]
        RECURSIVE Sum(_)
        Sum(us) == IF us = {} THEN 0
                   ELSE LET u == CHOOSE x \in us : TRUE
                        IN  counts[u] + Sum(us \ {u})
    IN  Sum(users)

\* ------------------------------------------------------------------------
\* The session as a state machine: one action is one run of a page's script
\* ------------------------------------------------------------------------
InitSession ==
    /\ session_state = PageStart(EmptyDict)
    /\ gradings = 0

IsStudent(s) == s["authenticated"] /\ DictGet(s["user_info"], "role", "") = "student"

InTakingPhase(s) == s["quiz_started"] /\ ~s["quiz_completed"]

sessionFrame == <<questions, user_answers, quiz_start_time, results, genVars, analyticsVars>>

\* app.py 52-60: the manual login form is submitted
Login(user_id, role, time_now) ==
    LET s == PageStart(session_state)
    IN  /\ ~s["authenticated"]
        /\ session_state' = LoginUser(s, user_id, role, time_now)
        /\ clock' = time_now
        /\ UNCHANGED <<gradings, sessionFrame>>

\* app.py 95-97: the Logout button
Logout ==
    LET s == PageStart(session_state)
    IN  /\ s["authenticated"]
        /\ session_state' = LogoutUser(s)
        /\ gradings' = 0
        /\ UNCHANGED <<clock, sessionFrame>>

\* 1_Student_Dashboard.py 23-39: the dashboard is shown to a student, the
\* profile being created when there is none
VisitDashboard(time_now) ==
    LET s == PageStart(session_state)
        user_info == s["user_info"]
    IN  /\ IsStudent(s)
        /\ session_state' =
              IF GetUserProfile(s, user_info.user_id) = PyNone
              THEN CreateUserProfile(s, user_info.user_id, user_info, time_now)
              ELSE s
        /\ clock' = time_now
        /\ UNCHANGED <<gradings, sessionFrame>>

\* 2_Take_Quiz.py 26-58: the setup page is shown and nothing is submitted
OpenQuizPage ==
    LET s == QuizPageDefaults(PageStart(session_state))
    IN  /\ IsStudent(s)
        /\ ~s["quiz_started"]
        /\ session_state' = s
        /\ UNCHANGED <<clock, gradings, sessionFrame>>

\* 2_Take_Quiz.py 93-116: the setup form is submitted and questions come back
GenerateQuiz(setup, time_now) ==
    LET s == QuizPageDefaults(PageStart(session_state))
    IN  /\ IsStudent(s)
        /\ ~s["quiz_started"]
        /\ TotalStored(s) < MaxStored
        /\ setup.questions # <<>>
        /\ session_state' = StartQuiz(s, setup.topic, setup.difficulty,
                                      setup.time_limit, setup.questions, time_now)
        /\ gradings' = 0
        /\ clock' = time_now
        /\ UNCHANGED sessionFrame

\* 2_Take_Quiz.py 121-210: one run of the quiz taking phase.  choice is the
\* option chosen in this run (PyNone for none) and button the button pressed
\* ("" for none).  When the time is up the run only sets quiz_completed.
TakingRun(choice, button, time_now) ==
    LET s == QuizPageDefaults(PageStart(session_state))
        quiz_questions == s["quiz_questions"]
        current_q == s["current_question"]
        answered == IF current_q < Len(quiz_questions) THEN RadioStored(s, choice) ELSE s
    IN  /\ IsStudent(s)
        /\ InTakingPhase(s)
        /\ clock' = time_now
        /\ UNCHANGED <<gradings, sessionFrame>>
        /\ IF TimeIsUp(s, time_now)
           THEN session_state' = [s EXCEPT !["quiz_completed"] = TRUE]
           ELSE /\ current_q < Len(quiz_questions)
                /\ choice # PyNone =>
                      choice.s[1] \in DOMAIN DictGet(quiz_questions[current_q + 1].d,
                                                     "options", PyDict(EmptyDict)).d
                /\ CASE button = "Previous" ->
                          /\ current_q > 0
                          /\ session_state' =
                                [answered EXCEPT !["current_question"] = current_q - 1]
                     [] button = "Next" ->
                          /\ current_q < Len(quiz_questions) - 1
                          /\ session_state' =
                                [answered EXCEPT !["current_question"] = current_q + 1]
                     [] button = "Confirm Submit" ->
                          session_state' = [answered EXCEPT !["quiz_completed"] = TRUE]
                     [] OTHER -> session_state' = answered

\* the learner looks at the question; the page is run again
ViewQuestion(time_now) == TakingRun(PyNone, "", time_now)

\* lines 168-178: an option of the radio is chosen
SelectAnswer(answer_key, time_now) == TakingRun(PyStr(<<answer_key>>), "", time_now)

\* lines 184-187
Previous(time_now) == TakingRun(PyNone, "Previous", time_now)

\* lines 190-193
NextQuestion(time_now) == TakingRun(PyNone, "Next", time_now)

\* lines 202-210
ConfirmSubmit(time_now) == TakingRun(PyNone, "Confirm Submit", time_now)

\* ShowResults grading and storing whether or not results are held
ShowResults_AlwaysGrades(time_now, saved) ==
    LET s == QuizPageDefaults(PageStart(session_state))
        graded == CalculateQuizResults(s["quiz_questions"], s["user_answers"],
                                       s["quiz_start_time"].n, time_now)
        stored == StoreQuizResult(s, s["user_info"].user_id, QuizData(s, graded), time_now)
    IN  /\ IsStudent(s)
        /\ s["quiz_started"] /\ s["quiz_completed"]
        /\ clock' = time_now
        /\ UNCHANGED sessionFrame
        /\ gradings' = gradings + 1
        /\ IF saved
           THEN session_state' = [stored EXCEPT !["quiz_results"] = graded]
           ELSE /\ gradings < MaxFailedSaves
                /\ session_state' = s

\* 2_Take_Quiz.py 213-243: one run of the results phase.  While quiz_results
\* is None the quiz is graded and handed to store_quiz_result; saved tells
\* whether the store took it (its upsert can raise, then nothing is stored,
\* False comes back and quiz_results stays None, so that the next run grades
\* again).
ShowResults(time_now, saved) ==
    LET s == QuizPageDefaults(PageStart(session_state))
        graded == CalculateQuizResults(s["quiz_questions"], s["user_answers"],
                                       s["quiz_start_time"].n, time_now)
        stored == StoreQuizResult(s, s["user_info"].user_id, QuizData(s, graded), time_now)
    IN  /\ IsStudent(s)
        /\ s["quiz_started"] /\ s["quiz_completed"]
        /\ clock' = time_now
        /\ UNCHANGED sessionFrame
        /\ IF s["quiz_results"] = PyNone
           THEN /\ gradings' = gradings + 1
                /\ IF saved
                   THEN session_state' = [stored EXCEPT !["quiz_results"] = graded]
                   ELSE /\ gradings < MaxFailedSaves
                        /\ session_state' = s
           ELSE /\ saved
                /\ session_state' = s
                /\ UNCHANGED gradings

\* 2_Take_Quiz.py 324-330: Take Another Quiz, shown with the results
TakeAnotherQuiz ==
    LET s == QuizPageDefaults(PageStart(session_state))
    IN  /\ IsStudent(s)
        /\ s["quiz_started"] /\ s["quiz_completed"]
        /\ s["quiz_results"] # PyNone
        /\ session_state' = DeleteKeys(s, LogoutQuizKeys)
        /\ gradings' = 0
        /\ UNCHANGED <<clock, sessionFrame>>

NextSession ==
    \/ \E user_id \in UserPool, role \in Roles, time_now \in Moments :
          Login(user_id, role, time_now)
    \/ Logout
    \/ \E time_now \in Moments : VisitDashboard(time_now)
    \/ OpenQuizPage
    \/ \E setup \in QuizSetups, time_now \in Moments : GenerateQuiz(setup, time_now)
    \/ \E time_now \in Moments : ViewQuestion(time_now)
    \/ \E answer_key \in {"A", "B"}, time_now \in Moments : SelectAnswer(answer_key, time_now)
    \/ \E time_now \in Moments : Previous(time_now)
    \/ \E time_now \in Moments : NextQuestion(time_now)
    \/ \E time_now \in Moments : ConfirmSubmit(time_now)
    \/ \E time_now \in Moments, saved \in BOOLEAN : ShowResults(time_now, saved)
    \/ TakeAnotherQuiz

Init == InitGrade /\ InitGen /\ InitAnalytics /\ InitSession

SpecGrade == Init /\ [][NextGrade]_vars

SpecGen == Init /\ [][NextGen]_vars

SpecAnalytics == Init /\ [][NextAnalytics]_vars

SpecSession == Init /\ [][NextSession]_vars

\* ------------------------------------------------------------------------
\* Properties of the grader
\* ------------------------------------------------------------------------
Graded == results # PyNone

OptionLetters == {"A", "B", "C", "D"}

\* two tokens that are the same letter in either case
SameLetter(x, y) ==
    \/ x = y
    \/ {x, y} \in {{"A", "a"}, {"B", "b"}, {"C", "c"}, {"D", "d"}}

\* two strings equal when letter case is ignored
SameIgnoringCase(v, w) ==
    /\ v.t = "str" /\ w.t = "str"
    /\ Len(v.s) = Len(w.s)
    /\ \A k \in 1..Len(v.s) : SameLetter(v.s[k], w.s[k])

\* a value of an AnswerMap: one option letter, in either case
IsOptionLetter(v) ==
    /\ v.t = "str"
    /\ Len(v.s) = 1
    /\ \E l \in OptionLetters : SameLetter(v.s[1], l)

IsAnswerMap(answers) == \A k \in DOMAIN answers : IsOptionLetter(answers[k])

\* a list of question records whose correct_answer, where present, is a string
IsQuestionSeq(qs) ==
    \A k \in 1..Len(qs) :
        /\ qs[k].t = "dict"
        /\ DictGet(qs[k].d, "correct_answer", PyStr(<<>>)).t = "str"

\* the indices whose stored answer equals the key of the question at that index
MatchingIndices ==
    {i \in 0..(Len(questions) - 1) :
        /\ i \in DOMAIN user_answers
        /\ "correct_answer" \in DOMAIN questions[i + 1].d
        /\ SameIgnoringCase(user_answers[i], questions[i + 1].d.correct_answer)}

\* C1: for a list of question records and an answer map of option letters, the
\* score is the number of indices whose answer is present and equals the
\* question's correct_answer when letter case is ignored.
C1_ScoreCountsMatches ==
    (Graded /\ IsQuestionSeq(questions) /\ IsAnswerMap(user_answers))
        => results.score = Cardinality(MatchingIndices)

\* a key answered in the other letter case has been counted
C1_Witness ==
    /\ Graded /\ IsQuestionSeq(questions) /\ IsAnswerMap(user_answers)
    /\ \E i \in MatchingIndices : user_answers[i] # questions[i + 1].d.correct_answer
    /\ Cardinality(MatchingIndices) < Len(questions)
    /\ results.score >= 1

\* C2: every result has total_questions = len(questions) and
\* 0 <= score <= total_questions.
C2_ScoreWithinTotal ==
    Graded =>
        /\ results.total_questions = Len(questions)
        /\ 0 <= results.score
        /\ results.score <= results.total_questions

C2_Witness ==
    /\ Graded
    /\ Cardinality(DOMAIN user_answers) < Len(questions)
    /\ 0 < results.score
    /\ results.score < results.total_questions

\* C3: percentage (in hundredths) is a nearest hundredth to 100*score/total when
\* total > 0, is 0 when total = 0, and lies in [0, 100].
C3_PercentageRounded ==
    Graded =>
        LET p == results.percentage
            n == results.total_questions
            d == p * n - 10000 * results.score
        IN  /\ n > 0 => (2 * d <= n /\ -2 * d <= n)
            /\ n = 0 => p = 0
            /\ 0 <= p /\ p <= 10000

\* two of three correct: 66.67
C3_Witness ==
    /\ Graded
    /\ results.total_questions = 3
    /\ results.score = 2
    /\ results.percentage = 6667

\* C4: with question records and an answer map of option letters, grading takes
\* its normal path; every index absent from the map has a breakdown entry
\* "Not answered" with is_correct false and adds nothing to the score; with an
\* empty map and n >= 1 question records, score = 0, percentage = 0 and all n
\* entries are "Not answered".
C4_MissingAnswers ==
    Graded =>
        /\ (IsQuestionSeq(questions) /\ IsAnswerMap(user_answers)) =>
              /\ Len(results.questions_breakdown) = Len(questions)
              /\ results.score <= Cardinality(DOMAIN user_answers)
              /\ \A i \in 0..(Len(questions) - 1) :
                    i \notin DOMAIN user_answers =>
                        /\ results.questions_breakdown[i + 1].user_answer = NotAnswered
                        /\ results.questions_breakdown[i + 1].is_correct = FALSE
        /\ (user_answers = EmptyDict /\ Len(questions) >= 1
              /\ \A k \in 1..Len(questions) : questions[k].t = "dict") =>
              /\ results.score = 0
              /\ results.percentage = 0
              /\ Len(results.questions_breakdown) = Len(questions)
              /\ \A k \in 1..Len(questions) :
                    /\ results.questions_breakdown[k].user_answer = NotAnswered
                    /\ results.questions_breakdown[k].is_correct = FALSE

\* a graded quiz with one question answered correctly and another left out
C4_Witness ==
    /\ Graded /\ IsQuestionSeq(questions) /\ IsAnswerMap(user_answers)
    /\ Len(questions) >= 2
    /\ results.score >= 1
    /\ \E i \in 0..(Len(questions) - 1) :
          /\ i \notin DOMAIN user_answers
          /\ results.questions_breakdown[i + 1].user_answer = NotAnswered

\* what the caller must pass for the try block of the grader to complete: every
\* list element a record and, at every answered index, a string answer and a
\* string correct_answer
GradableInput ==
    \A k \in 1..Len(questions) :
        /\ questions[k].t = "dict"
        /\ (k - 1) \in DOMAIN user_answers =>
              /\ user_answers[k - 1].t = "str"
              /\ DictGet(questions[k].d, "correct_answer", UnknownAnswer).t = "str"

\* entry k of the breakdown carries question k
EntryCarriesQuestion(k) ==
    LET e == results.questions_breakdown[k]
        q == questions[k].d
    IN  /\ e.question_number = k
        /\ e.question = q.question
        /\ e.options = q.options
        /\ e.correct_answer = q.correct_answer
        /\ e.explanation = q.explanation

\* C5 as stated: the breakdown always has one entry per question, so its length
\* always equals total_questions.
C5_Original ==
    Graded =>
        /\ Len(results.questions_breakdown) = results.total_questions
        /\ \A k \in 1..Len(results.questions_breakdown) : EntryCarriesQuestion(k)

\* C5 amended: when grading completes its try block the breakdown has one entry
\* per question, in question order, entry k numbered k and carrying question
\* k's text, options, correct_answer and explanation; when grading hits an
\* error the breakdown is empty while total_questions is len(questions).
C5_BreakdownPerQuestion ==
    Graded =>
        IF GradableInput
        THEN /\ Len(results.questions_breakdown) = results.total_questions
             /\ Len(results.questions_breakdown) = Len(questions)
             /\ \A k \in 1..Len(questions) : EntryCarriesQuestion(k)
        ELSE /\ results.questions_breakdown = <<>>
             /\ results.total_questions = Len(questions)

C5_Witness ==
    /\ Graded /\ GradableInput
    /\ Len(questions) = 3
    /\ results.questions_breakdown[3].question_number = 3
    /\ results.questions_breakdown[3].question = questions[3].d.question

\* C10 as stated: empty or malformed input gives score = 0, total_questions = 0
\* and percentage = 0.
C10_Original ==
    (Graded /\ (questions = <<>> \/ ~GradableInput)) =>
        /\ results.score = 0
        /\ results.total_questions = 0
        /\ results.percentage = 0

\* C10 amended: empty input gives score = 0, total_questions = 0, percentage
\* = 0; a non-empty list on which grading hits an error gives score = 0,
\* percentage = 0, time_taken = 0 and an empty breakdown, with total_questions
\* = len(questions).
C10_DefaultOnMalformed ==
    Graded =>
        /\ questions = <<>> =>
              /\ results.score = 0
              /\ results.total_questions = 0
              /\ results.percentage = 0
        /\ ~GradableInput =>
              /\ results.score = 0
              /\ results.percentage = 0
              /\ results.time_taken = 0
              /\ results.questions_breakdown = <<>>
              /\ results.total_questions = Len(questions)
              /\ results.total_questions > 0

\* a malformed call whose answers, graded alone, would have scored
C10_Witness ==
    /\ Graded /\ ~GradableInput
    /\ \E i \in 0..(Len(questions) - 1) :
          /\ questions[i + 1].t = "dict"
          /\ i \in DOMAIN user_answers
          /\ SameIgnoringCase(user_answers[i],
                              DictGet(questions[i + 1].d, "correct_answer", PyNone))
    /\ results.score = 0
    /\ results.total_questions = Len(questions)

\* the arguments of calculate_quiz_results are the same before and after the step
SameArguments ==
    UNCHANGED <<questions, user_answers, quiz_start_time>>

\* C11 as stated: the result is a function of the arguments alone, so a second
\* call with the same arguments at a later moment returns the same result.
C11_Original ==
    [][(Graded /\ Graded' /\ SameArguments) => results' = results]_vars

\* C11: on the normal path time_taken is the clock at the call minus the
\* start_time argument, rounded to two decimals; a second call with the same
\* arguments at another moment returns the same score, total_questions,
\* percentage and questions_breakdown.
C11_TimeFromClock ==
    [][/\ (Graded' /\ GradableInput') =>
              results'.time_taken = Round2(clock' - quiz_start_time', 1000)
       /\ (Graded /\ Graded' /\ SameArguments) =>
              /\ results'.score = results.score
              /\ results'.total_questions = results.total_questions
              /\ results'.percentage = results.percentage
              /\ results'.questions_breakdown = results.questions_breakdown]_vars

\* a quiz started at 0.5 s and graded at 61.738 s took 61.24 s
C11_Witness ==
    /\ Graded /\ GradableInput
    /\ quiz_start_time = 500
    /\ clock = 61738
    /\ results.time_taken = 6124

\* the list qs with the questions at positions i and j exchanged
SwapQuestions(qs, i, j) == [qs EXCEPT ![i] = qs[j], ![j] = qs[i]]

\* the permutations of 1..n
IndexPermutations(n) ==
    {p \in [1..n -> 1..n] : \A a, b \in 1..n : p[a] = p[b] => a = b}

\* position k of the permuted list holds the question that was at position p[k]
PermuteQuestions(qs, p) == [k \in 1..Len(qs) |-> qs[p[k]]]

\* the answer map re-keyed the same way: index k-1 holds the answer of p[k]-1
PermuteAnswers(answers, p) ==
    [i \in {k - 1 : k \in {x \in DOMAIN p : (p[x] - 1) \in DOMAIN answers}}
        |-> answers[p[i + 1] - 1]]

\* what the same call returns for other questions and answers
Regraded(qs, answers) == CalculateQuizResults(qs, answers, quiz_start_time, clock)

\* C12: grading is keyed by position. For question records and an answer map of
\* option letters, exchanging two questions whose correct_answer differ while
\* the answer map stays as it is changes the result, and applying one
\* permutation to the questions and to the answer indices leaves score and
\* percentage as they were.
C12_PositionalKeying ==
    (Graded /\ IsQuestionSeq(questions) /\ IsAnswerMap(user_answers)) =>
        /\ \A i \in 1..Len(questions) : \A j \in (i + 1)..Len(questions) :
              (DictGet(questions[i].d, "correct_answer", PyNone)
                  # DictGet(questions[j].d, "correct_answer", PyNone))
                  => Regraded(SwapQuestions(questions, i, j), user_answers) # results
        /\ \A p \in IndexPermutations(Len(questions)) :
              LET r == Regraded(PermuteQuestions(questions, p),
                                PermuteAnswers(user_answers, p))
              IN  /\ r.score = results.score
                  /\ r.percentage = results.percentage

\* an answered quiz whose score changes when two questions are exchanged
C12_Witness ==
    /\ Graded /\ IsQuestionSeq(questions) /\ IsAnswerMap(user_answers)
    /\ results.score >= 1
    /\ Cardinality(DOMAIN user_answers) < Len(questions)
    /\ \E i, j \in 1..Len(questions) :
          Regraded(SwapQuestions(questions, i, j), user_answers).score # results.score

\* the number of breakdown entries marked correct
CorrectEntries ==
    Cardinality({k \in 1..Len(results.questions_breakdown) :
                    results.questions_breakdown[k].is_correct})

\* C26 as stated: in every result, score is the number of breakdown entries
\* marked correct and total_questions is the number of breakdown entries.
C26_Original ==
    Graded =>
        /\ results.score = CorrectEntries
        /\ results.total_questions = Len(results.questions_breakdown)

\* C26 amended: when grading completes its try block on an answer map of option
\* letters, score is the number of breakdown entries marked correct and
\* total_questions is the number of entries, also where a correct_answer is
\* empty; when grading hits an error, score is 0 and no entry is marked correct,
\* but total_questions is len(questions) while the breakdown is empty.
C26_ComputationsAgree ==
    Graded =>
        /\ (GradableInput /\ IsAnswerMap(user_answers)) =>
              /\ results.score = CorrectEntries
              /\ results.total_questions = Len(results.questions_breakdown)
        /\ ~GradableInput =>
              /\ results.score = 0
              /\ CorrectEntries = 0
              /\ results.questions_breakdown = <<>>
              /\ results.total_questions = Len(questions)

\* a graded quiz with a counted answer, a wrong answer and an answer to a
\* question whose correct_answer is empty
C26_Witness ==
    /\ Graded /\ GradableInput /\ IsAnswerMap(user_answers)
    /\ results.score >= 1
    /\ results.score = CorrectEntries
    /\ \E k \in 1..Len(questions) :
          /\ (k - 1) \in DOMAIN user_answers
          /\ questions[k].d.correct_answer = PyStr(<<>>)
          /\ ~results.questions_breakdown[k].is_correct
    /\ \E k \in 1..Len(questions) :
          /\ (k - 1) \in DOMAIN user_answers
          /\ questions[k].d.correct_answer # PyStr(<<>>)
          /\ ~results.questions_breakdown[k].is_correct

\* ------------------------------------------------------------------------
\* Properties of the analytics
\* ------------------------------------------------------------------------
\* the mapping held is the one returned for the history held, not for an
\* earlier one
TopicsAnalysed ==
    /\ topic_stats # PyNone
    /\ topic_stats.items = AnalyzeTopicPerformance(history)

DifficultyAnalysed ==
    /\ difficulty_stats # PyNone
    /\ difficulty_stats.items = GetDifficultyAnalysis(history)

\* every record carries the fields a HistoricalQuizRecord always has
IsStoredHistory(h) ==
    \A i \in 1..Len(h) : {"topic", "percentage"} \subseteq DOMAIN h[i]

\* the percentages of the records of h that satisfy Pick, in the order of h
PercentagesWhere(h, Pick(_)) ==
    LET picked == SelectSeq(h, Pick)
    IN  [i \in 1..Len(picked) |-> picked[i].percentage]

\* the mean of a non-empty sequence of numbers
Mean(xs) == Rat(SumSeq(xs), Len(xs))

\* C13: for a history of stored records, analyze_topic_performance returns one
\* entry per distinct topic string of the history, compared exactly (letter
\* case kept); total_quizzes of an entry is the number of records with that
\* topic, the total_quizzes sum to len(history), and the empty history gives
\* the empty mapping.
C13_OneEntryPerTopic ==
    (TopicsAnalysed /\ IsStoredHistory(history)) =>
        LET items == topic_stats.items
            topics == {history[i].topic : i \in 1..Len(history)}
        IN  /\ {items[k].key : k \in 1..Len(items)} = topics
            /\ Len(items) = Cardinality(topics)
            /\ \A k \in 1..Len(items) :
                  items[k].value.total_quizzes =
                      Cardinality({i \in 1..Len(history) :
                                      history[i].topic = items[k].key})
            /\ SumSeq([k \in 1..Len(items) |-> items[k].value.total_quizzes])
                  = Len(history)
            /\ history = <<>> => items = <<>>

\* "Algebra" and "algebra" are two topics, one of them with two quizzes
C13_Witness ==
    /\ TopicsAnalysed /\ IsStoredHistory(history)
    /\ Keys(topic_stats.items) = <<"Algebra", "algebra">>
    /\ ItemGet(topic_stats.items, "algebra").total_quizzes = 2
    /\ Len(history) = 3

\* C14: for a topic with n >= 2 stored records of percentages p1..pn in the
\* order of the history, average_score is their mean and trend is the mean of
\* the last min(3,n) minus the mean of the first min(3,n); for
\* [40,50,60,70,80] the average is 60 and the trend 20.
C14_AverageAndTrend ==
    (TopicsAnalysed /\ IsStoredHistory(history)) =>
        /\ \A k \in 1..Len(topic_stats.items) :
              LET item == topic_stats.items[k]
                  p == PercentagesWhere(history, LAMBDA quiz : quiz.topic = item.key)
                  n == Len(p)
                  m == IF n < 3 THEN n ELSE 3
              IN  n >= 2 =>
                      /\ RatEq(item.value.average_score, Mean(p))
                      /\ RatEq(item.value.trend,
                               RatSub(Mean(SubSeq(p, n - m + 1, n)),
                                      Mean(SubSeq(p, 1, m))))
        /\ history = ScenarioC =>
              /\ RatEq(topic_stats.items[1].value.average_score, Rat(6000, 1))
              /\ RatEq(topic_stats.items[1].value.trend, Rat(2000, 1))

\* scenario C has been analysed
C14_Witness ==
    /\ TopicsAnalysed
    /\ history = ScenarioC
    /\ Keys(topic_stats.items) = <<"Algebra">>
    /\ topic_stats.items[1].value.total_quizzes = 5

\* the difficulty a record states, "medium" when it states none
StatedDifficulty(quiz) ==
    IF "difficulty" \in DOMAIN quiz THEN quiz.difficulty ELSE "medium"

HasPercentages(h) == \A i \in 1..Len(h) : "percentage" \in DOMAIN h[i]

\* C15: get_difficulty_analysis returns one group per distinct difficulty
\* value, a record without the field belonging to the group "medium" along
\* with the records that state "medium"; total_quizzes of a group is the
\* number of its records, and the empty history gives the empty mapping.
C15_GroupsByDifficulty ==
    DifficultyAnalysed =>
        LET items == difficulty_stats.items
            difficulties == {StatedDifficulty(history[i]) : i \in 1..Len(history)}
        IN  /\ {items[k].key : k \in 1..Len(items)} = difficulties
            /\ Len(items) = Cardinality(difficulties)
            /\ \A k \in 1..Len(items) :
                  items[k].value.total_quizzes =
                      Cardinality({i \in 1..Len(history) :
                                      StatedDifficulty(history[i]) = items[k].key})
            /\ history = <<>> => items = <<>>

\* a record without difficulty and one stating "medium" share a group
C15_Witness ==
    /\ DifficultyAnalysed
    /\ \E i, j \in 1..Len(history) :
          /\ "difficulty" \notin DOMAIN history[i]
          /\ "difficulty" \in DOMAIN history[j]
          /\ history[j].difficulty = "medium"
    /\ HasKey(difficulty_stats.items, "medium")
    /\ ItemGet(difficulty_stats.items, "medium").total_quizzes = 2
    /\ Len(difficulty_stats.items) = 2

\* C16: for every difficulty group of n records with percentages, average_score
\* is the mean of the percentages and success_rate is 100 times the number of
\* percentages >= 70 over n, a percentage of exactly 70 being a success;
\* success_rate lies in [0, 100].
C16_AverageAndSuccessRate ==
    (DifficultyAnalysed /\ HasPercentages(history)) =>
        \A k \in 1..Len(difficulty_stats.items) :
            LET item == difficulty_stats.items[k]
                p == PercentagesWhere(history,
                                      LAMBDA quiz : StatedDifficulty(quiz) = item.key)
                successes == Cardinality({i \in 1..Len(p) : p[i] >= 7000})
            IN  /\ RatEq(item.value.average_score, Mean(p))
                /\ RatEq(item.value.success_rate, Rat(10000 * successes, Len(p)))
                /\ ~RatLess(item.value.success_rate, 0)
                /\ ~RatBelow(Rat(10000, 1), item.value.success_rate)

\* a group of a 70 and a 40: success_rate 50
C16_Witness ==
    /\ DifficultyAnalysed /\ HasPercentages(history)
    /\ \E k \in 1..Len(difficulty_stats.items) :
          /\ difficulty_stats.items[k].value.scores = <<7000, 4000>>
          /\ RatEq(difficulty_stats.items[k].value.success_rate, Rat(5000, 1))

\* C17 as stated: scenario D gives average_score 56.67 and success_rate 33.33
C17_Original ==
    (DifficultyAnalysed /\ history = ScenarioD) =>
        LET stats == ItemGet(difficulty_stats.items, "easy")
        IN  /\ RoundHalfEven(stats.average_score.num, stats.average_score.den) = 5667
            /\ RoundHalfEven(stats.success_rate.num, stats.success_rate.den) = 3333

\* C17: for three "easy" records with percentages [50, 55, 65], "easy" has
\* average_score 170/3 (56.67 to two decimals) and success_rate 0, since no
\* percentage reaches 70.
C17_ScenarioD ==
    (DifficultyAnalysed /\ history = ScenarioD) =>
        /\ Keys(difficulty_stats.items) = <<"easy">>
        /\ LET stats == ItemGet(difficulty_stats.items, "easy")
           IN  /\ stats.total_quizzes = 3
               /\ RatEq(stats.average_score, Rat(17000, 3))
               /\ RoundHalfEven(stats.average_score.num, stats.average_score.den) = 5667
               /\ RatEq(stats.success_rate, Rat(0, 1))

\* scenario D has been analysed
C17_Witness ==
    /\ DifficultyAnalysed
    /\ history = ScenarioD
    /\ ItemGet(difficulty_stats.items, "easy").scores = <<5000, 5500, 6500>>

\* C18: the two analyses are pure. A call that returns a mapping leaves the
\* history records as they were; while the history stays the same, the mapping
\* returned for it stays the same whatever is called again; and a call of one
\* analysis leaves the mapping the other returned earlier, for this or for
\* another history, as it was.
C18_PureAnalysis ==
    [][/\ (topic_stats' # topic_stats \/ difficulty_stats' # difficulty_stats)
              => history' = history
       /\ (history' = history /\ TopicsAnalysed) => topic_stats' = topic_stats
       /\ (history' = history /\ DifficultyAnalysed)
              => difficulty_stats' = difficulty_stats
       /\ topic_stats' # topic_stats => difficulty_stats' = difficulty_stats
       /\ difficulty_stats' # difficulty_stats => topic_stats' = topic_stats]_vars

\* the topics of scenario C were analysed, then the difficulties of scenario D:
\* the mapping returned first is still the one of scenario C
C18_Witness ==
    /\ history = ScenarioD
    /\ topic_stats # PyNone
    /\ topic_stats.items = AnalyzeTopicPerformance(ScenarioC)
    /\ DifficultyAnalysed
    /\ Keys(difficulty_stats.items) = <<"easy">>

\* generate_study_recommendations has returned; the mappings held are its
\* arguments
Recommended == recommendations # PyNone

\* the kinds of recommendation
IsTopicWeakness(rec) == "topic" \in DOMAIN rec

IsDecliningAlert(rec) == "declining_topics" \in DOMAIN rec

\* no topic of the mapping has a lower average_score than entry k
IsLowestAverage(stats, k) ==
    \A j \in 1..Len(stats) :
        ~RatBelow(stats[j].value.average_score, stats[k].value.average_score)

\* tenths is a number of tenths nearest to x, x given in hundredths
IsNearestTenth(tenths, x) ==
    /\ 2 * (tenths * 10 * x.den - x.num) <= 10 * x.den
    /\ 2 * (x.num - tenths * 10 * x.den) <= 10 * x.den

\* C19: rule 1. With a non-empty topic mapping whose lowest average_score is
\* below 70, the first recommendation is the topic-weakness one, naming a topic
\* of that lowest average and the average to one decimal; with a lowest
\* average of 70 or more no topic-weakness recommendation is returned.
C19_WeakestTopicFirst ==
    (Recommended /\ topic_stats.items # <<>>) =>
        LET stats == topic_stats.items
            recs == recommendations.items
            lowest == {k \in 1..Len(stats) : IsLowestAverage(stats, k)}
        IN  IF \E k \in lowest : RatLess(stats[k].value.average_score, 7000)
            THEN /\ IsTopicWeakness(recs[1])
                 /\ \E k \in lowest :
                       /\ recs[1].topic = stats[k].key
                       /\ IsNearestTenth(recs[1].average_score,
                                         stats[k].value.average_score)
                 /\ \A i \in 2..Len(recs) : ~IsTopicWeakness(recs[i])
            ELSE \A i \in 1..Len(recs) : ~IsTopicWeakness(recs[i])

\* the weakest of two topics is not the first of the mapping
C19_Witness ==
    /\ Recommended
    /\ Len(topic_stats.items) = 2
    /\ RatBelow(topic_stats.items[2].value.average_score,
                topic_stats.items[1].value.average_score)
    /\ IsTopicWeakness(recommendations.items[1])
    /\ recommendations.items[1].topic = topic_stats.items[2].key
    /\ recommendations.items[1].average_score = 550

\* C20: rule 2. If some topic of the mapping has trend < -10, exactly one
\* declining-performance recommendation is returned and it lists the topics of
\* trend < -10, each once and no other (a trend of exactly -10 is not listed);
\* if no topic has trend < -10, none is returned.
C20_DecliningTopicsListed ==
    Recommended =>
        LET stats == topic_stats.items
            recs == recommendations.items
            declining == {stats[k].key : k \in
                            {j \in 1..Len(stats) : RatLess(stats[j].value.trend, -1000)}}
            alerts == {i \in 1..Len(recs) : IsDecliningAlert(recs[i])}
        IN  IF declining # {}
            THEN /\ Cardinality(alerts) = 1
                 /\ \A i \in alerts :
                       LET listed == recs[i].declining_topics
                       IN  /\ {listed[n] : n \in 1..Len(listed)} = declining
                           /\ Len(listed) = Cardinality(declining)
            ELSE alerts = {}

\* two topics fell by 20 points and are listed, a third fell by exactly 10
C20_Witness ==
    /\ Recommended
    /\ \E k \in 1..Len(topic_stats.items) :
          RatEq(topic_stats.items[k].value.trend, Rat(-1000, 1))
    /\ \E i \in 1..Len(recommendations.items) :
          /\ IsDecliningAlert(recommendations.items[i])
          /\ recommendations.items[i].declining_topics = <<"Algebra", "History">>

IsPractice(rec) == "difficulty" \in DOMAIN rec

\* the recommendations of xs that satisfy Kind, in the order of xs
OfKind(xs, Kind(_)) == SelectSeq(xs, Kind)

\* the difficulties of the mapping whose average_score is below 60, in the
\* order of the mapping
WeakDifficulties(stats) ==
    SelectSeq(stats, LAMBDA item : RatLess(item.value.average_score, 6000))

\* rule 1 fires, rule 2 fires
Rule1Fires(stats) ==
    \E k \in 1..Len(stats) : RatLess(stats[k].value.average_score, 7000)

Rule2Fires(stats) ==
    \E k \in 1..Len(stats) : RatLess(stats[k].value.trend, -1000)

\* how many entries rules 1 and 2 put in front of those of rule 3
TopicEntries(stats) ==
    (IF Rule1Fires(stats) THEN 1 ELSE 0) + (IF Rule2Fires(stats) THEN 1 ELSE 0)

\* C21: rule 3. Every difficulty of the mapping with average_score below 60
\* gets a recommendation of its own, naming the difficulty and its
\* success_rate to one decimal, in the order of the mapping, and no other
\* difficulty gets one; of these entries the returned list holds those that
\* fit in its three places after the entries of rules 1 and 2.
C21_WeakDifficultiesNamed ==
    Recommended =>
        LET weak == WeakDifficulties(difficulty_stats.items)
            practice == OfKind(recommendations.items, IsPractice)
            room == 3 - TopicEntries(topic_stats.items)
        IN  /\ Len(practice) = (IF Len(weak) < room THEN Len(weak) ELSE room)
            /\ \A n \in 1..Len(practice) :
                  /\ practice[n].difficulty = weak[n].key
                  /\ IsNearestTenth(practice[n].success_rate,
                                    weak[n].value.success_rate)

\* two weak difficulties in the order of the mapping, one of them with one
\* success in three quizzes, and a third difficulty that is not weak
C21_Witness ==
    /\ Recommended
    /\ Len(difficulty_stats.items) = 3
    /\ Len(WeakDifficulties(difficulty_stats.items)) = 2
    /\ LET practice == OfKind(recommendations.items, IsPractice)
       IN  /\ Len(practice) = 2
           /\ practice[1].difficulty = difficulty_stats.items[1].key
           /\ practice[2].difficulty = difficulty_stats.items[3].key

\* C22: the list returned is the first three of: the rule 1 entry if rule 1
\* fired, the rule 2 entry if rule 2 fired, the rule 3 entries in the order of
\* the difficulty mapping. It has at most three entries and keeps a fired rule
\* 1 or rule 2 entry; for one topic of average 55, no declining topic and one
\* difficulty of average 50 it has exactly two entries, the topic entry first.
C22_FirstThreeInRuleOrder ==
    Recommended =>
        LET recs == recommendations.items
            stats == topic_stats.items
            first == IF Rule1Fires(stats) THEN 1 ELSE 0
            front == TopicEntries(stats)
        IN  /\ Len(recs) <= 3
            /\ Rule1Fires(stats) => IsTopicWeakness(recs[1])
            /\ Rule2Fires(stats) => IsDecliningAlert(recs[first + 1])
            /\ \A i \in (front + 1)..Len(recs) :
                  IsPractice(recs[i]) \/ recs = <<KeepUp>>
            /\ (/\ Len(stats) = 1
                /\ RatEq(stats[1].value.average_score, Rat(5500, 1))
                /\ ~Rule2Fires(stats)
                /\ Len(difficulty_stats.items) = 1
                /\ RatEq(difficulty_stats.items[1].value.average_score, Rat(5000, 1)))
                  => /\ Len(recs) = 2
                     /\ IsTopicWeakness(recs[1])
                     /\ IsPractice(recs[2])

\* scenario E
C22_Witness ==
    /\ Recommended
    /\ topic_stats.items = AnalyzeTopicPerformance(ScenarioETopics)
    /\ difficulty_stats.items = GetDifficultyAnalysis(ScenarioEDifficulties)
    /\ Len(recommendations.items) = 2
    /\ recommendations.items[1].average_score = 550
    /\ recommendations.items[2].difficulty = "hard"

\* C23: the list returned is never empty; it is the one general
\* recommendation exactly when none of the rules 1 to 3 fires, as for the
\* empty mappings of an empty history, and the general recommendation never
\* stands beside another one.
C23_GeneralOnlyWhenNoRuleFires ==
    Recommended =>
        LET recs == recommendations.items
            fires == \/ Rule1Fires(topic_stats.items)
                     \/ Rule2Fires(topic_stats.items)
                     \/ WeakDifficulties(difficulty_stats.items) # <<>>
        IN  /\ recs # <<>>
            /\ ~fires <=> recs = <<KeepUp>>
            /\ (\E i \in 1..Len(recs) : recs[i] = KeepUp) => Len(recs) = 1
            /\ (topic_stats.items = <<>> /\ difficulty_stats.items = <<>>)
                  => recs = <<KeepUp>>

\* the recommendation for an empty history
C23_Witness ==
    /\ Recommended
    /\ history = <<>>
    /\ TopicsAnalysed /\ DifficultyAnalysed
    /\ recommendations.items = <<KeepUp>>

\* C25: a topic with one, two or three records has trend 0 whatever its
\* percentages are, so a trend other than 0 is reported only for a topic with
\* at least four records.
C25_TrendZeroUpToThree ==
    TopicsAnalysed =>
        \A k \in 1..Len(topic_stats.items) :
            LET stats == topic_stats.items[k].value
            IN  /\ stats.total_quizzes <= 3 => RatEq(stats.trend, Rat(0, 1))
                /\ ~RatEq(stats.trend, Rat(0, 1)) => stats.total_quizzes >= 4

\* a topic of three quizzes that fell from 100 to 40 has trend 0, beside a
\* topic of one quiz
C25_Witness ==
    /\ TopicsAnalysed
    /\ \E k \in 1..Len(topic_stats.items) :
          /\ topic_stats.items[k].value.scores = <<10000, 7000, 4000>>
          /\ RatEq(topic_stats.items[k].value.trend, Rat(0, 1))
    /\ \E k \in 1..Len(topic_stats.items) :
          /\ topic_stats.items[k].value.total_quizzes = 1

\* xs in the opposite order
Reversed(xs) == [i \in 1..Len(xs) |-> xs[Len(xs) + 1 - i]]

\* the percentages analyze_topic_performance reads from the records of a topic
TopicPercentages(h, topic) ==
    LET picked == SelectSeq(h, LAMBDA quiz : TopicOf(quiz) = topic)
    IN  {PercentageOf(picked[i]) : i \in 1..Len(picked)}

C28_ProfileAgreesWithHistory ==
    \A u \in DOMAIN session_state["user_profiles"] :
        LET profile == session_state["user_profiles"][u]
            quiz_history == GetQuizHistory(session_state, u)
            percentages == [i \in 1..Len(quiz_history) |-> quiz_history[i].percentage]
        IN  /\ profile.quiz_count = Len(quiz_history)
            /\ quiz_history # <<>> =>
                  RatEq(Rat(profile.average_score.num * 100, profile.average_score.den),
                        Mean(percentages))

\* every key the quiz page keeps in the session
QuizSessionKeys ==
    LogoutQuizKeys \cup {"quiz_topic", "quiz_difficulty", "quiz_time_limit"}

\* the session holds a quiz that is being taken
QuizBeingTaken(s) ==
    /\ "quiz_started" \in DOMAIN s
    /\ s["quiz_started"] /\ ~s["quiz_completed"]

\* the session holds a quiz that is completed
QuizCompleted(s) ==
    /\ "quiz_completed" \in DOMAIN s
    /\ s["quiz_completed"]

\* the session holds the results of the quiz, which are set when they are saved
ResultsSaved(s) ==
    /\ "quiz_results" \in DOMAIN s
    /\ s["quiz_results"] # PyNone

\* the position and the answers fit the questions of the quiz
AnswersFitQuestions(s) ==
    LET quiz_questions == s["quiz_questions"]
        answers == s["user_answers"]
    IN  /\ 0 <= s["current_question"]
        /\ s["current_question"] <= Len(quiz_questions) - 1
        /\ \A i \in DOMAIN answers :
              /\ i \in 0..(Len(quiz_questions) - 1)
              /\ answers[i].t = "str"
              /\ Len(answers[i].s) = 1
              /\ answers[i].s[1] \in DOMAIN quiz_questions[i + 1].d.options.d

\* the last record stored for the user of the session is the grading result held
SavedRecordIsResult(s) ==
    LET quiz_history == GetQuizHistory(s, s["user_info"].user_id)
        quiz == quiz_history[Len(quiz_history)]
        quiz_results == s["quiz_results"]
    IN  /\ quiz_history # <<>>
        /\ quiz.score = quiz_results.score
        /\ quiz.total_questions = quiz_results.total_questions
        /\ quiz.percentage = quiz_results.percentage
        /\ quiz.time_taken = quiz_results.time_taken
        /\ quiz.user_answers = s["user_answers"]
        /\ quiz.questions = s["quiz_questions"]

\* what C29 says of the position, the answers and the stored record: a quiz
\* that is being taken after the step has current_question in
\* [0, len(questions)-1], only valid question indices as keys of user_answers
\* and at every key an option key of the question at that index; the answers
\* of a completed quiz no longer change; a quiz record is stored only in a step
\* that takes a completed quiz from no results to results, it is one record
\* and it carries the results held; once the results are held, they and the
\* stored history stay as they are while the quiz is kept, and nothing is
\* graded.
NavigationAndSavedResult(s, t) ==
    /\ QuizBeingTaken(t) => AnswersFitQuestions(t)
    /\ (QuizCompleted(s) /\ QuizCompleted(t)) =>
          /\ t["user_answers"] = s["user_answers"]
          /\ t["quiz_questions"] = s["quiz_questions"]
    /\ t["quiz_history"] # s["quiz_history"] =>
          /\ QuizCompleted(s) /\ ~ResultsSaved(s)
          /\ ResultsSaved(t)
          /\ TotalStored(t) = TotalStored(s) + 1
          /\ SavedRecordIsResult(t)
    /\ (ResultsSaved(s) /\ "quiz_results" \in DOMAIN t) =>
          /\ t["quiz_results"] = s["quiz_results"]
          /\ t["quiz_history"] = s["quiz_history"]
          /\ gradings' = gradings

\* C29 as stated: the above, and a completed quiz is graded once.
C29_Original ==
    [][/\ NavigationAndSavedResult(session_state, session_state')
       /\ gradings' <= 1
      ]_vars

\* C29 amended: the above; a quiz is graded only once it is completed, in every
\* run of the results page until store_quiz_result accepts the record, and that
\* run is the last one that grades it: results are held only after a grading,
\* and a grading that follows an earlier one finds no results held.
C29_NavigationAndGradingUntilSaved ==
    [][/\ NavigationAndSavedResult(session_state, session_state')
       /\ gradings' > gradings =>
             /\ gradings' = gradings + 1
             /\ QuizCompleted(session_state)
             /\ ~ResultsSaved(session_state)
       /\ ResultsSaved(session_state') => gradings' >= 1
       /\ QuizBeingTaken(session_state') => gradings' = 0
      ]_vars

\* a quiz that was answered, left at its second question, ended by the time
\* limit and saved at the second grading
C29_Witness ==
    /\ ResultsSaved(session_state)
    /\ gradings = 2
    /\ session_state["current_question"] = 1
    /\ DOMAIN session_state["user_answers"] # {}
    /\ session_state["quiz_results"].time_taken
          > session_state["quiz_time_limit"] * 100
    /\ SavedRecordIsResult(session_state)

\* C30: whenever the session is unauthenticated (initially and after
\* logout_user), user_info is empty, login_time is None and the session holds
\* none of the quiz keys: questions, position, answers, start time, topic,
\* difficulty, time limit, started and completed flags, results.
C30_LogoutClearsQuizData ==
    ~session_state["authenticated"] =>
        /\ DOMAIN session_state["user_info"] = {}
        /\ session_state["login_time"] = PyNone
        /\ DOMAIN session_state \cap QuizSessionKeys = {}

\* ------------------------------------------------------------------------
\* Properties of the generator
\* ------------------------------------------------------------------------
Generated == gen_args # PyNone

Min(a, b) == IF a < b THEN a ELSE b

\* the service answered 200 with [{"generated_text": <non-empty str>}]
HasText == IsTextReply(reply) /\ ReplyTextOf(reply) # <<>>

\* the stripped lines of the reply that start a question, in order
QuestionLines ==
    SelectSeq([k \in 1..Len(Split(ReplyTextOf(reply))) |->
                  Strip(Split(ReplyTextOf(reply))[k])],
              LAMBDA l : l # <<>> /\ l[1] = "Question:")

\* the returned records that have a question field, in order
WithQuestionField == SelectSeq(gen_questions, LAMBDA q : "question" \in DOMAIN q.d)

\* C6: generate returns at most count questions; when the text parses to at
\* least one question the result is the first count parsed questions (all of
\* them when fewer were parsed), and the returned question texts are those of
\* the text's "Question:" lines in their order of appearance.
C6_FirstCountParsed ==
    Generated =>
        /\ Len(gen_questions) <= gen_args.num_questions
        /\ (HasText /\ ParsedQuestions(ReplyTextOf(reply)) # <<>>) =>
              LET parsed == ParsedQuestions(ReplyTextOf(reply))
                  n == Min(gen_args.num_questions, Len(parsed))
              IN  /\ Len(gen_questions) = n
                  /\ \A k \in 1..n : gen_questions[k] = parsed[k]
                  /\ Len(WithQuestionField) <= Len(QuestionLines)
                  /\ \A k \in 1..Len(WithQuestionField) :
                        WithQuestionField[k].d.question.s
                            = Strip(Tail(QuestionLines[k]))

\* four questions parsed, three asked for: the first three, in the text's order
C6_Witness ==
    /\ Generated /\ HasText
    /\ gen_args.num_questions = 3
    /\ Len(ParsedQuestions(ReplyTextOf(reply))) = 4
    /\ Len(gen_questions) = 3
    /\ gen_questions[1].d.question = PyStr(<<"Q2">>)
    /\ gen_questions[2].d.question = PyStr(<<"Q1">>)

\* The call is unavailable: requests.post raised, the status is not 200, the
\* body is no JSON, or the payload holds no text (an empty list, an element
\* that is no record, no generated_text field, a generated_text of None or '').
Unavailable ==
    \/ reply.kind = "exception"
    \/ reply.status_code # 200
    \/ ~reply.json
    \/ LET body == reply.body
           holder == IF body.t = "list" /\ body.items # <<>> THEN body.items[1] ELSE body
       IN  \/ holder.t # "dict"
           \/ "generated_text" \notin DOMAIN holder.d
           \/ holder.d.generated_text = PyNone
           \/ holder.d.generated_text = PyStr(<<>>)

\* s occurs in text as a run of consecutive tokens
Contains(text, s) ==
    \E i \in 0..(Len(text) - Len(s)) : SubSeq(text, i + 1, i + Len(s)) = s

\* how the five questions of the fallback library begin, in library order
FallbackOpenings ==
    << "What is an important concept in ",
       "Which of the following best describes ",
       "What is the primary goal when studying ",
       "How can knowledge of ",
       "What approach is most effective for learning " >>

C8_FallbackOnParseFailure ==
    (Generated /\ HasText /\ ParsedQuestions(ReplyTextOf(reply)) = <<>>) =>
        /\ Len(gen_questions) = Min(gen_args.num_questions, 5)
        /\ gen_questions = GenerateQuizQuestions(gen_args.topic, "medium",
                                                 gen_args.num_questions, ReplyException)
        /\ \A k \in 1..Len(gen_questions) :
              Contains(gen_questions[k].d.question.s, gen_args.topic)

\* C9: every question generate returns has between 2 and 4 options keyed by
\* letters in A-D and a correct_answer that is one of those keys.
C9_QuestionInvariant ==
    Generated =>
        \A k \in 1..Len(gen_questions) :
            LET q == gen_questions[k].d
                keys == DOMAIN DictGet(q, "options", PyDict(EmptyDict)).d
                correct_answer == DictGet(q, "correct_answer", PyStr(<<>>)).s
            IN  /\ keys \subseteq OptionLetters
                /\ Cardinality(keys) >= 2
                /\ Cardinality(keys) <= 4
                /\ Len(correct_answer) = 1
                /\ correct_answer[1] \in keys

\* C24: every record generate returns from a parsed response has the four
\* fields question, options, correct_answer and explanation, and its question
\* text is not empty.
C24_RecordsHaveQuestionText ==
    Generated =>
        \A k \in 1..Len(gen_questions) :
            /\ DOMAIN gen_questions[k].d =
                  {"question", "options", "correct_answer", "explanation"}
            /\ gen_questions[k].d.question.s # <<>>

====
